---- MODULE Spec2Model ----
(***************************************************************************)
(* Device UI-state acquisition of droidrun-automotive.                     *)
(*                                                                         *)
(* AdbTools.get_state (src/droidrun/tools/android/adb.py) drives           *)
(* AutomotiveStateProvider.get_state / get_ui_tree                         *)
(* (src/droidrun/tools/parsers/uiautomator_parser.py), which issues shell  *)
(* commands one at a time.  Every action below is the code that runs from  *)
(* the completion of one await to the next await.                          *)
(*                                                                         *)
(* A shell output is a sequence of text chunks; each chunk is named after  *)
(* the substrings of it that the code looks for.                           *)
(***************************************************************************)
EXTENDS Integers, Sequences, FiniteSets, TLC

\* ------------------------------------------------------------------ bounds
\* number of AdbTools.get_state calls made on one AdbTools instance
MaxCalls == 2

\* ------------------------------------------------------- program constants
max_retries == 3
RetryDelayMs == 500
DefaultWidth == 1080
DefaultHeight == 2400

\* the ordered shell-command variants of _get_ui_tree_uiautomator
strategies ==
  << "uiautomator dump /dev/tty",
     "uiautomator dump --compressed /dev/tty",
     "uiautomator dump /sdcard/window_dump.xml && cat /sdcard/window_dump.xml && rm -f /sdcard/window_dump.xml" >>

DumpsysCommand == "dumpsys activity top"

\* ------------------------------------------------------------ shell outputs
\* What awaiting device.shell comes to: the text returned, or an exception
\* (a connectivity error) raised instead
Returned(text) == [status |-> "returned", text |-> text]
ShellException == [status |-> "raised", text |-> << >>]
NotIssued == [status |-> "not issued", text |-> << >>]
ShellResults(texts) == { Returned(t) : t \in texts } \cup { ShellException }

\* Chunks of a `uiautomator dump` output:
\*   banner     text without any marker
\*   ERROR      text containing "ERROR"
\*   idle       text containing "could not get idle state"
\*   IDLE       text containing "Could Not Get Idle State"
\*   hierchary  the notice "UI hierchary dumped to: ..."
\*   hierarchy  the notice "UI hierarchy dumped to: ..."
\*   xmldecl    "<?xml version=... ?>"
\*   xml        a well-formed <hierarchy> document with at least one <node>
\*   xmlERROR   the same, with "ERROR" inside an attribute value
\*   xmlerror   the same, with "error" inside an attribute value
\*   xmlempty   a well-formed <hierarchy> document without any <node>
\*   xmlbroken  text starting with "<hierarchy" that is not well-formed
UiOutputs ==
  { << >>,
    << "banner" >>,
    << "ERROR" >>,
    << "idle" >>,
    << "IDLE" >>,
    << "xml" >>,
    << "xmldecl", "xml" >>,
    << "xml", "hierchary" >>,
    << "xml", "hierarchy" >>,
    << "hierchary", "xml" >>,
    << "banner", "xml" >>,
    << "xml", "banner" >>,
    << "xmlERROR" >>,
    << "xmlerror" >>,
    << "xmlempty" >>,
    << "xmlbroken" >>,
    << "xmldecl", "banner" >> }

\* Chunks of a `dumpsys activity top` output:
\*   noise     a line that is no view line
\*   vhword    text containing "View Hierarchy" without the colon
\*   vhmark    the line "View Hierarchy:"
\*   viewline  a line that _parse_view_line turns into a node
DumpsysOutputs ==
  { << >>,
    << "noise" >>,
    << "viewline" >>,
    << "vhmark", "viewline" >>,
    << "vhmark", "noise" >>,
    << "viewline", "vhmark" >>,
    << "vhword", "viewline" >>,
    << "noise", "vhmark", "viewline", "viewline" >> }

\* Lines of the window dump: key = the line contains mCurrentFocus or
\* mFocusedApp; comp = it has a token with "/" and "."; pkg and act
\* (dot-separated segments of the activity) are that token's two halves.
WindowLine(key, comp, pkg, act) == [key |-> key, comp |-> comp, pkg |-> pkg, act |-> act]

WindowOutputs ==
  { << WindowLine(TRUE, FALSE, "", << >>),
       WindowLine(FALSE, TRUE, "com.other", << "com", "other", "Hidden" >>) >>,
    << WindowLine(TRUE, TRUE, "com.app", << "com", "app", "MainActivity" >>),
       WindowLine(TRUE, TRUE, "com.car", << "", "Launcher" >>) >> }

\* Lines of the input-method dump, named after the text they contain
ImeOutputs ==
  { << "mInputShown=false" >>,
    << "mInputShown=false", "mShowRequested=true" >> }

\* Lines of `wm size`: key = the line contains "Physical size:" or
\* "Override size:"; fields = the text after the last ":" split at "x",
\* each field either a decimal number (num) or something else.
Num(n) == [num |-> TRUE, val |-> n]
NotNum == [num |-> FALSE, val |-> 0]
SizeLine(key, fields) == [key |-> key, fields |-> fields]

WmSizeOutputs ==
  { << SizeLine(FALSE, << >>) >>,
    << SizeLine(TRUE, << Num(1920), NotNum >>) >>,
    << SizeLine(FALSE, << >>), SizeLine(TRUE, << Num(720), Num(1280) >>),
       SizeLine(TRUE, << Num(1920), Num(1080) >>) >> }

\* ------------------------------------------------------------------- trees
\* A tree is identified by the strategy that produced it; None is no tree.
None == "none"

\* ----------------------------------------------------------- text helpers
\* `s in output` for a chunk kind
Contains(output, kinds) == \E i \in 1..Len(output) : output[i] \in kinds

\* output.find(kind): the first position, 0 when absent
Find(output, kinds) ==
  IF Contains(output, kinds)
  THEN CHOOSE i \in 1..Len(output) :
         /\ output[i] \in kinds
         /\ \A j \in 1..(i - 1) : output[j] \notin kinds
  ELSE 0

\* output[:idx] and output[idx:]
Before(output, idx) == SubSeq(output, 1, idx - 1)
From(output, idx) == SubSeq(output, idx, Len(output))

ErrorChunks == { "ERROR", "xmlERROR" }
IdleChunks == { "idle", "IDLE" }
HierarchyChunks == { "xml", "xmlERROR", "xmlerror", "xmlempty", "xmlbroken" }
NodeDocuments ==
  { << "xml" >>, << "xmlERROR" >>, << "xmlerror" >>,
    << "xmldecl", "xml" >>, << "xmldecl", "xmlERROR" >>, << "xmldecl", "xmlerror" >> }

\* ---------------------------------------------------------------- parsers
\* UIAutomatorParser.parse: skip what precedes "<hierarchy" unless the text
\* starts with "<?xml" or "<hierarchy"; ET.fromstring accepts one document
\* and nothing around it; a hierarchy without a node gives None.
uiautomator_parser_parse(xml_content) ==
  LET start_idx == Find(xml_content, HierarchyChunks)
      starts_ok == Len(xml_content) > 0 /\ xml_content[1] \in (HierarchyChunks \cup { "xmldecl" })
      content == IF starts_ok THEN xml_content ELSE From(xml_content, start_idx)
  IN  IF ~starts_ok /\ start_idx = 0 THEN None
      ELSE IF content \in NodeDocuments THEN "uiautomator"
      ELSE None

\* DumpsysParser._extract_view_hierarchy: the text after "View Hierarchy:";
\* without the marker, the whole text when it holds a bounds-shaped string
\* (only view lines do), else nothing.
extract_view_hierarchy(dumpsys_output) ==
  LET idx == Find(dumpsys_output, { "vhmark" })
  IN  IF idx # 0 THEN From(dumpsys_output, idx + 1)
      ELSE IF Contains(dumpsys_output, { "viewline" }) THEN dumpsys_output
      ELSE << >>

\* DumpsysParser.parse: None without a section or without a parsed node
dumpsys_parser_parse(dumpsys_output) ==
  LET view_hierarchy == extract_view_hierarchy(dumpsys_output)
  IN  IF view_hierarchy = << >> THEN None
      ELSE IF Contains(view_hierarchy, { "viewline" }) THEN "dumpsys"
      ELSE None

\* --------------------------------------- _get_ui_tree_uiautomator, one variant
\* the error conditions looked for outside the hierarchy document only
HasErrorMarkerOutsideDump(output) == Contains(output, { "ERROR" }) \/ Contains(output, IdleChunks)

\* line 657: the error conditions; "ERROR" as written, the idle text of
\* output.lower()
HasErrorMarker(output) == Contains(output, ErrorChunks) \/ Contains(output, IdleChunks)

\* lines 662-668: cut the output at the first end marker that occurs,
\* "UI hierchary dumped" being looked for first
StripNotice(output) ==
  IF Contains(output, { "hierchary" }) THEN Before(output, Find(output, { "hierchary" }))
  ELSE IF Contains(output, { "hierarchy" }) THEN Before(output, Find(output, { "hierarchy" }))
  ELSE output

\* lines 671-675: parse only text that shows "<hierarchy" or "<?xml"
ParseVariant(output) ==
  IF Contains(output, HierarchyChunks \cup { "xmldecl" })
  THEN uiautomator_parser_parse(output)
  ELSE None

\* TryVariant without the except clause of line 677
TryVariantUncaught(output) ==
  IF output = ShellException THEN "raise"
  ELSE IF HasErrorMarker(output.text) THEN "marker"
  ELSE IF ParseVariant(StripNotice(output.text)) # None THEN "tree"
  ELSE "notree"

\* lines 653-679, the body of the loop: what one variant comes to.
\*   "exception"  device.shell raised, caught at line 677
\*   "marker"     an error marker, line 657
\*   "tree"       parsed to a tree, line 675
\*   "notree"     nothing parsed
\*   "raise"      an exception leaves the loop (no path of the code does)
TryVariant(output) ==
  IF output = ShellException THEN "exception"
  ELSE IF HasErrorMarker(output.text) THEN "marker"
  ELSE IF ParseVariant(StripNotice(output.text)) # None THEN "tree"
  ELSE "notree"

\* LoopControl without the return of line 675: the loop runs to its end
LoopContinuesAfterTree(res, i) ==
  IF res = "raise" THEN "raise"
  ELSE IF i < Len(strategies) THEN "next"
  ELSE IF res = "tree" THEN "return_tree"
  ELSE "return_none"

\* LoopControl with `return None` in place of `continue`
LoopStopsAtFirstFailure(res, i) ==
  IF res = "raise" THEN "raise"
  ELSE IF res = "tree" THEN "return_tree"
  ELSE "return_none"

\* lines 652-681, the loop's control: after variant i came to res
LoopControl(res, i) ==
  IF res = "raise" THEN "raise"
  ELSE IF res = "tree" THEN "return_tree"
  ELSE IF i < Len(strategies) THEN "next"
  ELSE "return_none"

\* NextVariant retrying the variant whose shell call raised
SameVariantAfterException(res, i) == IF res = "exception" THEN i ELSE i + 1

\* line 652: `for strategy in strategies` moves on to the next variant
NextVariant(res, i) == i + 1

\* ------------------------------------------------- _get_ui_tree_dumpsys
\* lines 690-705: what the one dumpsys invocation comes to
TryDumpsys(output) ==
  IF output = ShellException THEN "exception"
  ELSE IF output.text = << >> \/ ~Contains(output.text, { "vhword", "vhmark" }) THEN "notree"
  ELSE IF dumpsys_parser_parse(output.text) # None THEN "tree"
  ELSE "notree"

\* line 694 passed: the parser is called (line 698)
DumpsysParsed(output) ==
  /\ output # ShellException
  /\ output.text # << >>
  /\ Contains(output.text, { "vhword", "vhmark" })

\* --------------------------------------------------------- get_phone_state
DefaultPhoneState(err) ==
  [currentApp |-> "Unknown", packageName |-> "Unknown", isEditable |-> FALSE,
   focusedElement |-> "null", error |-> err]

LastSegment(act) == IF Len(act) = 0 THEN "" ELSE act[Len(act)]

\* lines 726-744: every line with a focus key and a package/activity token
\* overwrites package_name and current_app (the break leaves the inner loop only)
RECURSIVE ScanWindow(_, _, _)
ScanWindow(lines, package_name, current_app) ==
  IF lines = << >> THEN << package_name, current_app >>
  ELSE IF Head(lines).key /\ Head(lines).comp
       THEN ScanWindow(Tail(lines), Head(lines).pkg, LastSegment(Head(lines).act))
       ELSE ScanWindow(Tail(lines), package_name, current_app)

\* lines 747-751
IsEditable(ime_lines) ==
  \E i \in 1..Len(ime_lines) : ime_lines[i] \in { "mInputShown=true", "mShowRequested=true" }

\* get_phone_state, lines 714-768: the state parsed from the two outputs, or
\* the default record with "error" when either shell call raised
PhoneState(window_out, ime_out) ==
  IF window_out = ShellException \/ ime_out = ShellException
  THEN DefaultPhoneState(TRUE)
  ELSE LET pa == ScanWindow(window_out.text, "Unknown", "Unknown")
       IN  [currentApp |-> pa[2], packageName |-> pa[1],
            isEditable |-> IsEditable(ime_out.text),
            focusedElement |-> "null", error |-> FALSE]

\* --------------------------------------------------------- get_screen_size
DefaultSize == [width |-> DefaultWidth, height |-> DefaultHeight]

\* lines 782-784 on the first line with a size key: a ValueError (not two
\* fields, or a field that is no number) is caught at line 789
SizeOfLine(line) ==
  IF Len(line.fields) = 2 /\ line.fields[1].num /\ line.fields[2].num
  THEN [width |-> line.fields[1].val, height |-> line.fields[2].val]
  ELSE DefaultSize

\* ScreenSize without the 1080x2400 fallback
ScreenSizeZeroOnFailure(output) ==
  IF output = ShellException THEN [width |-> 0, height |-> 0]
  ELSE IF \E i \in 1..Len(output.text) : output.text[i].key
       THEN SizeOfLine(output.text[CHOOSE i \in 1..Len(output.text) :
                                 output.text[i].key /\ \A j \in 1..(i - 1) : ~output.text[j].key])
       ELSE [width |-> 0, height |-> 0]

\* get_screen_size, lines 777-791
ScreenSize(output) ==
  IF output = ShellException THEN DefaultSize
  ELSE IF \E i \in 1..Len(output.text) : output.text[i].key
       THEN SizeOfLine(output.text[CHOOSE i \in 1..Len(output.text) :
                                 output.text[i].key /\ \A j \in 1..(i - 1) : ~output.text[j].key])
       ELSE DefaultSize

\* get_state, lines 804-811: the snapshot
Snapshot(tree, phone, size) ==
  [a11y_tree |-> tree, phone_state |-> phone,
   device_context |-> [screen_bounds |-> size, min_element_size |-> 5]]

NoSnapshot == Snapshot("unset", DefaultPhoneState(FALSE), [width |-> 0, height |-> 0])

\* -------------------------------------------------- get_ui_tree, affinity
\* FirstStrategy ignoring the affinity
FirstStrategyAlwaysUiautomator(preferred) == "uiautomator"

\* line 617: which strategy a call starts with
FirstStrategy(preferred) == IF preferred = "dumpsys" THEN "dumpsys" ELSE "uiautomator"

\* the backup call of line 622 writes the affinity like the call of line 625
AffinityWrittenOnBackup(preferred, position) == "uiautomator"

\* lines 625-628: a tree of the default uiautomator call makes "uiautomator"
\* the affinity; the backup call of line 622 returns its tree without writing
AffinityAfterUiautomator(preferred, position) ==
  IF position = "L625" THEN "uiautomator" ELSE preferred

\* AffinityAfterFallback without the `if result` of line 633
AffinityWrittenAlways(preferred, res) == "dumpsys"

\* lines 633-634: the affinity after the fallback dumpsys attempt
AffinityAfterFallback(preferred, res) == IF res = "tree" THEN "dumpsys" ELSE preferred

\* ------------------------------------------------- AdbTools.get_state, retry
\* RetryAgain without the bound on the attempts
SleepsAfterEveryAttempt(att) == TRUE

\* line 1020: sleep and try again, or give up (att counts from 0)
RetryAgain(att) == att < max_retries - 1

\* ------------------------------------------------------------------ state
VARIABLES
  automotive_mode,           \* AdbTools._automotive_mode
  pc,                        \* the await the one in-flight call is suspended at
  calls,                     \* AdbTools.get_state calls made so far
  attempt,                   \* get_state: the loop variable `attempt`
  sleeps,                    \* get_state: the delays slept in the current call
  outcome,                   \* how the latest AdbTools.get_state call ended
  preferred_method,          \* AutomotiveStateProvider._preferred_method
  strategy,                  \* _get_ui_tree_uiautomator: index of the variant awaited
  output,                    \* _get_ui_tree_*: local output, what the latest shell call came to
  trace,                     \* get_ui_tree: the shell commands issued, in order
  parse_calls,               \* get_ui_tree: calls of dumpsys_parser.parse
  pref_at_start,             \* get_ui_tree: _preferred_method when the call began
  ui_result,                 \* get_ui_tree: what the call returned
  a11y_tree,                 \* get_state (provider): local a11y_tree
  window_output,             \* get_phone_state: local window_output
  ime_output,                \* get_phone_state: local ime_output
  wm_output,                 \* get_screen_size: local output
  combined_data,             \* get_state (AdbTools): local combined_data
  screen_width,              \* AdbTools.screen_width
  screen_height,             \* AdbTools.screen_height
  raw_tree_cache,            \* AdbTools.raw_tree_cache
  filtered_tree_cache,       \* AdbTools.filtered_tree_cache
  clickable_elements_cache,  \* AdbTools.clickable_elements_cache
  cache_cycle,               \* the get_state call that wrote clickable_elements_cache
  last_tap                   \* the latest tap_on_index call since the latest get_state call

\* the state of the other specifications of this module
VARIABLES
  dump,                      \* parse: the argument xml_content / dumpsys_output
  parsed,                    \* parse: what the call came to
  inflight,                  \* concurrent callers: where each get_state call is suspended
  tap_call,                  \* tap resolution: the method called and its index argument
  tap_result,                \* tap resolution: what the call came to
  clicks                     \* tap resolution: the device.click calls issued

\* AdbTools.remember
VARIABLES
  memory,                    \* AdbTools.memory
  remembered,                \* the items remember has appended so far, in order
  reply,                     \* what the latest remember call returned
  completion,                \* AdbTools.success, AdbTools.reason, AdbTools.finished
  complete_call              \* the latest complete call: its arguments and how it ended

\* droidServer
VARIABLES
  manager,                   \* the ConnectionManager `manager`
  handlers,                  \* each handle_websocket call: position, client_id, request
  sessions,                  \* each DroidSession and its task
  sockets                    \* each websocket: the messages sent on it, its close code

callVars == << calls, attempt, sleeps, outcome >>
\* output, trace, parse_calls, pref_at_start and ui_result observe one
\* get_ui_tree call, from its start until its caller has moved on to the
\* next shell call; obsVars are those that no step of the call's own loop
\* over the variants changes
obsVars == << parse_calls, pref_at_start, ui_result >>
uiVars == << preferred_method, strategy, output, trace, obsVars >>
localVars == << a11y_tree, window_output, ime_output, wm_output, combined_data >>
cacheVars == << screen_width, screen_height, raw_tree_cache, filtered_tree_cache,
               clickable_elements_cache, cache_cycle >>
parserVars == << dump, parsed >>
tapVars == << tap_call, tap_result, clicks >>
memVars == << memory, remembered, reply, completion, complete_call >>
srvVars == << manager, handlers, sessions, sockets >>
extraVars == << memVars, srvVars >>
sideVars == << parserVars, inflight, tapVars, extraVars >>
\* what no step of an acquisition changes
fixedVars == << automotive_mode, sideVars, last_tap >>
acqVars == << automotive_mode, pc, callVars, uiVars, localVars, cacheVars, last_tap >>
vars == << acqVars, sideVars >>
nonServerVars == << acqVars, parserVars, inflight, tapVars, memVars >>

\* no tap_on_index call yet
NoTap == [result |-> "none", cycle |-> 0]
\* no parse call, no concurrent caller, no tap resolution
NoDump == [parser |-> "none"]
NotParsed == [status |-> "not called"]
NoCall == [method |-> "none", index |-> 0]
NoResult == [status |-> "not called"]
ParserIdle ==
  /\ dump = NoDump
  /\ parsed = NotParsed
NoCallers == inflight = << >>
TapIdle ==
  /\ tap_call = NoCall
  /\ tap_result = NoResult
  /\ clicks = << >>
\* lines 77-79: reason and success are None, finished is False
NotCompleted == [success |-> << >>, reason |-> << >>, finished |-> FALSE]
NoComplete == [status |-> "not called"]

\* lines 77-81: the memory and the completion of a constructed AdbTools
MemoryIdle ==
  /\ memory = << >>
  /\ remembered = << >>
  /\ reply = "none"
  /\ completion = NotCompleted
  /\ complete_call = NoComplete

\* ------------------------------------------------- droidServer, constructed
\* A client stands for its websocket, for the handle_websocket call made
\* for it and for the DroidSession and session task that call creates.
\* manager holds the fields of the ConnectionManager: each dict maps a
\* client_id to the client whose websocket, session or task is stored under
\* it, NoClient for a key that is absent.
NumClients == 2
MaxConnections == 2
MaxEvents == 1
Clients == 1..NumClients
NoClient == 0
ClientIds == 1..NumClients

\* a WebSocketMessage: its event_type, and the status or error it carries
Msg(event_type, detail) == [event_type |-> event_type, detail |-> detail]
NoMessage == Msg("none", "")

NewHandler(id) == [pc |-> "idle", client_id |-> id, request |-> "none"]
\* DroidSession.__init__, lines 52-57, and the events run has sent
NewSession ==
  [pc |-> "none", must_cancel |-> FALSE, cancel_pending |-> FALSE, cancelled |-> FALSE,
   events |-> 0, emitted |-> << >>, passed |-> {}]
\* a websocket: the latest message sent on it and the code it was closed with
NewSocket == [last |-> NoMessage, close_code |-> 0]

\* ConnectionManager.__init__, lines 25-29, with the limit given, and the
\* clients this server will see, each with the client_id it comes with
ServerConstructed(limit, ids) ==
  /\ manager = [max_connections |-> limit,
                active_connections |-> [id \in ClientIds |-> NoClient],
                active_sessions |-> [id \in ClientIds |-> NoClient],
                session_tasks |-> [id \in ClientIds |-> NoClient]]
  /\ handlers = [c \in Clients |-> NewHandler(ids[c])]
  /\ sessions = [c \in Clients |-> NewSession]
  /\ sockets = [c \in Clients |-> NewSocket]

\* a server no client has come to
ServerIdle == ServerConstructed(MaxConnections, [c \in Clients |-> c])
ExtraIdle == MemoryIdle /\ ServerIdle
SideIdle == ParserIdle /\ NoCallers /\ TapIdle /\ ExtraIdle

UiPositions == { "L622", "L625" }
DumpsysPositions == { "L618", "L632" }

\* AdbTools.__init__ and AutomotiveStateProvider.__init__
ConstructedExceptCache ==
  /\ pc = "idle"
  /\ calls = 0
  /\ attempt = 0
  /\ sleeps = << >>
  /\ outcome = "none"
  /\ preferred_method = None
  /\ strategy = 0
  /\ output = NotIssued
  /\ trace = << >>
  /\ parse_calls = 0
  /\ pref_at_start = None
  /\ ui_result = "unset"
  /\ a11y_tree = "unset"
  /\ window_output = NotIssued
  /\ ime_output = NotIssued
  /\ wm_output = NotIssued
  /\ combined_data = NoSnapshot
  /\ screen_width = 0
  /\ screen_height = 0
  /\ raw_tree_cache = None
  /\ filtered_tree_cache = None
  /\ cache_cycle = 0
  /\ last_tap = NoTap

Constructed ==
  /\ ConstructedExceptCache
  /\ clickable_elements_cache = "empty"

Init ==
  /\ automotive_mode \in BOOLEAN
  /\ Constructed
  /\ SideIdle

\* the locals of a fresh attempt
FreshLocals ==
  /\ a11y_tree' = "unset"
  /\ window_output' = NotIssued
  /\ ime_output' = NotIssued
  /\ wm_output' = NotIssued
  /\ combined_data' = NoSnapshot

\* get_ui_tree is entered (line 617): the first shell command is issued
EnterUiTree ==
  /\ pref_at_start' = preferred_method
  /\ ui_result' = "pending"
  /\ output' = NotIssued
  /\ parse_calls' = 0
  /\ preferred_method' = preferred_method
  /\ IF FirstStrategy(preferred_method) = "dumpsys"
     THEN /\ pc' = "L618"
          /\ strategy' = 0
          /\ trace' = << DumpsysCommand >>
     ELSE /\ pc' = "L625"
          /\ strategy' = 1
          /\ trace' = << strategies[1] >>

\* one iteration of the retry loop begins (lines 968-975)
BeginAttempt ==
  /\ FreshLocals
  /\ IF automotive_mode
     THEN EnterUiTree
     ELSE /\ pc' = "portal"
          /\ UNCHANGED uiVars

\* the except branch of the retry loop (lines 1016-1025)
AttemptFailed ==
  IF RetryAgain(attempt)
  THEN /\ pc' = "sleep"
       /\ sleeps' = Append(sleeps, RetryDelayMs)
       /\ UNCHANGED << calls, attempt, outcome >>
  ELSE /\ pc' = "idle"
       /\ outcome' = "raised"
       /\ UNCHANGED << calls, attempt, sleeps >>

\* AdbTools.get_state is called: _ensure_connected, then the first attempt
GetState ==
  /\ pc = "idle"
  /\ calls < MaxCalls
  /\ calls' = calls + 1
  /\ attempt' = 0
  /\ sleeps' = << >>
  /\ outcome' = "pending"
  /\ BeginAttempt
  /\ last_tap' = NoTap
  /\ UNCHANGED << automotive_mode, sideVars, cacheVars >>

\* asyncio.sleep(0.5) is over: the next attempt
SleepReturns ==
  /\ pc = "sleep"
  /\ attempt' = attempt + 1
  /\ BeginAttempt
  /\ UNCHANGED << fixedVars, calls, sleeps, outcome, cacheVars >>

\* get_ui_tree returns tree (lines 620, 622, 628, 636); the provider's
\* get_state goes on to get_phone_state and issues its first shell command
UiTreeReturns(tree) ==
  /\ ui_result' = tree
  /\ a11y_tree' = tree
  /\ pc' = "window"
  /\ strategy' = 0
  /\ UNCHANGED << window_output, ime_output, wm_output, combined_data >>
  /\ UNCHANGED << fixedVars, callVars, cacheVars, pref_at_start >>

\* an exception leaves get_ui_tree and the provider's get_state, and is
\* caught by the retry loop
UiTreeRaises ==
  /\ ui_result' = "raised"
  /\ strategy' = 0
  /\ AttemptFailed
  /\ UNCHANGED << fixedVars, localVars, cacheVars, pref_at_start, preferred_method >>

\* device.shell(strategy) of _get_ui_tree_uiautomator returns or raises
\* (line 654); the loop body runs, and get_ui_tree goes on up to its next
\* await or its return
UiautomatorShellReturns ==
  /\ pc \in UiPositions
  /\ \E out \in ShellResults(UiOutputs) :
       LET res == TryVariant(out)
           control == LoopControl(res, strategy)
       IN  /\ output' = out
           /\ CASE control = "raise" ->
                     /\ UiTreeRaises
                     /\ UNCHANGED << trace, parse_calls >>
                [] control = "next" ->
                     /\ strategy' = NextVariant(res, strategy)
                     /\ trace' = Append(trace, strategies[strategy'])
                     /\ UNCHANGED << fixedVars, pc, callVars, localVars, cacheVars,
                                     preferred_method, obsVars >>
                [] control = "return_tree" ->
                     /\ preferred_method' = AffinityAfterUiautomator(preferred_method, pc)
                     /\ UiTreeReturns("uiautomator")
                     /\ UNCHANGED << trace, parse_calls >>
                [] control = "return_none" /\ pc = "L622" ->
                     /\ preferred_method' = preferred_method
                     /\ UiTreeReturns(None)
                     /\ UNCHANGED << trace, parse_calls >>
                [] control = "return_none" /\ pc = "L625" ->
                     /\ trace' = Append(trace, DumpsysCommand)
                     /\ pc' = "L632"
                     /\ strategy' = 0
                     /\ UNCHANGED << fixedVars, callVars, localVars, cacheVars,
                                     preferred_method, obsVars >>

\* device.shell("dumpsys activity top") of _get_ui_tree_dumpsys returns or
\* raises (line 692); get_ui_tree goes on up to its next await or its return
DumpsysShellReturns ==
  /\ pc \in DumpsysPositions
  /\ \E out \in ShellResults(DumpsysOutputs) :
       LET res == TryDumpsys(out)
       IN  /\ output' = out
           /\ parse_calls' = IF DumpsysParsed(out) THEN parse_calls + 1 ELSE parse_calls
           /\ CASE pc = "L618" /\ res = "tree" ->
                     /\ preferred_method' = preferred_method
                     /\ UiTreeReturns("dumpsys")
                     /\ UNCHANGED trace
                [] pc = "L618" /\ res # "tree" ->
                     /\ trace' = Append(trace, strategies[1])
                     /\ pc' = "L622"
                     /\ strategy' = 1
                     /\ UNCHANGED << fixedVars, callVars, localVars, cacheVars,
                                     preferred_method, pref_at_start, ui_result >>
                [] pc = "L632" ->
                     /\ preferred_method' = AffinityAfterFallback(preferred_method, res)
                     /\ UiTreeReturns(IF res = "tree" THEN "dumpsys" ELSE None)
                     /\ UNCHANGED trace

\* the observation of the get_ui_tree call ends
EndObservation ==
  /\ output' = NotIssued
  /\ trace' = << >>
  /\ parse_calls' = 0
  /\ pref_at_start' = None
  /\ ui_result' = "unset"

\* the window shell call of get_phone_state returns or raises (line 716)
WindowShellReturns ==
  /\ pc = "window"
  /\ \E out \in ShellResults(WindowOutputs) :
       /\ window_output' = out
       /\ pc' = IF out = ShellException THEN "wm_size" ELSE "ime"
  /\ EndObservation
  /\ UNCHANGED << fixedVars, callVars, cacheVars, preferred_method, strategy,
                  a11y_tree, ime_output, wm_output, combined_data >>

\* the input-method shell call of get_phone_state returns or raises (line 721)
ImeShellReturns ==
  /\ pc = "ime"
  /\ \E out \in ShellResults(ImeOutputs) :
       ime_output' = out
  /\ pc' = "wm_size"
  /\ UNCHANGED << fixedVars, callVars, uiVars, cacheVars,
                  a11y_tree, window_output, wm_output, combined_data >>

\* AdbTools.get_state, lines 977-1014, on the data of one attempt.
\* kind: "ok", "error" (the data holds an "error" key) or "missing" (a
\* required key is missing); filtering: whether tree_filter.filter and
\* tree_formatter.format return ("ok") or raise.
ProcessCombined(data, kind, filtering) ==
  /\ combined_data' = data
  /\ IF kind # "ok"
     THEN /\ AttemptFailed
          /\ UNCHANGED cacheVars
     ELSE /\ screen_width' = data.device_context.screen_bounds.width
          /\ screen_height' = data.device_context.screen_bounds.height
          /\ raw_tree_cache' = data.a11y_tree
          /\ filtered_tree_cache' =
               IF filtering = "filter_raises" THEN filtered_tree_cache ELSE data.a11y_tree
          /\ clickable_elements_cache' =
               IF filtering = "ok" THEN data.a11y_tree ELSE clickable_elements_cache
          /\ cache_cycle' = IF filtering = "ok" THEN calls ELSE cache_cycle
          /\ IF filtering = "ok"
             THEN /\ pc' = "idle"
                  /\ outcome' = "returned"
                  /\ UNCHANGED << calls, attempt, sleeps >>
             ELSE AttemptFailed

\* the shell call of get_screen_size returns or raises (line 778); the
\* provider's get_state returns the snapshot and AdbTools.get_state
\* processes it
WmSizeShellReturns ==
  /\ pc = "wm_size"
  /\ \E out \in ShellResults(WmSizeOutputs) :
       /\ wm_output' = out
       /\ \E filtering \in { "ok", "filter_raises", "format_raises" } :
            ProcessCombined(
              Snapshot(a11y_tree, PhoneState(window_output, ime_output), ScreenSize(out)),
              "ok", filtering)
  /\ UNCHANGED << fixedVars, uiVars, a11y_tree, window_output, ime_output >>

PortalPhoneState ==
  [currentApp |-> "Settings", packageName |-> "com.android.settings", isEditable |-> FALSE,
   focusedElement |-> "null", error |-> FALSE]

\* portal.get_state returns or raises (line 975)
PortalReturns ==
  /\ pc = "portal"
  /\ \E kind \in { "ok", "error", "missing", "raise" } :
       IF kind = "raise"
       THEN /\ AttemptFailed
            /\ UNCHANGED << cacheVars, combined_data >>
       ELSE \E filtering \in { "ok", "filter_raises", "format_raises" } :
              ProcessCombined(Snapshot("portal", PortalPhoneState, DefaultSize), kind, filtering)
  /\ UNCHANGED << fixedVars, uiVars, a11y_tree, window_output, ime_output, wm_output >>

\* the task awaiting get_state is cancelled: CancelledError is raised at the
\* await the call is suspended at; no `except Exception` catches it
Cancel ==
  /\ pc # "idle"
  /\ pc' = "idle"
  /\ outcome' = "cancelled"
  /\ ui_result' = IF pc \in UiPositions \cup DumpsysPositions THEN "cancelled" ELSE ui_result
  /\ strategy' = 0
  /\ UNCHANGED << fixedVars, calls, attempt, sleeps, localVars, cacheVars,
                  preferred_method, output, trace, parse_calls, pref_at_start >>

\* AdbTools.tap_on_index is called between two acquisitions (lines 375-428):
\* the index is resolved against clickable_elements_cache as it is; an
\* empty cache is the error of line 398, and a filled cache is searched for
\* the index (line 400)
TapOnIndex ==
  /\ pc = "idle"
  /\ last_tap' =
       [result |-> IF clickable_elements_cache \in { "empty", None }
                   THEN "no elements cached" ELSE "resolved",
        cycle |-> cache_cycle]
  /\ UNCHANGED << automotive_mode, sideVars, pc, callVars, uiVars, localVars, cacheVars >>

Next ==
  \/ GetState
  \/ UiautomatorShellReturns
  \/ DumpsysShellReturns
  \/ WindowShellReturns
  \/ ImeShellReturns
  \/ WmSizeShellReturns
  \/ PortalReturns
  \/ SleepReturns
  \/ Cancel
  \/ TapOnIndex

Spec == Init /\ [][Next]_vars

\* the awaited operation completes: device.shell returns or raises, the
\* portal answers, the sleep ends
Completes ==
  \/ UiautomatorShellReturns
  \/ DumpsysShellReturns
  \/ WindowShellReturns
  \/ ImeShellReturns
  \/ WmSizeShellReturns
  \/ PortalReturns
  \/ SleepReturns

\* Every awaited operation of the event loop eventually completes.
FairSpec == Init /\ [][Next]_vars /\ WF_vars(Completes)

\* ================================================================ properties
Trees == { "uiautomator", "dumpsys" }
InUiTree == pc \in UiPositions \cup DumpsysPositions
JustReturned == pc = "window" /\ ui_result \in Trees \cup { None }
StrategyOf(cmd) == IF cmd = DumpsysCommand THEN "dumpsys" ELSE "uiautomator"
Last(seq) == seq[Len(seq)]

\* a Structured variant's output that carries no error marker and parses
VariantSucceeded(out) ==
  /\ out.status = "returned"
  /\ ~HasErrorMarker(out.text)
  /\ ParseVariant(StripNotice(out.text)) # None

\* a Text output that shows a view hierarchy and parses
DumpsysSucceeded(out) ==
  /\ out.status = "returned"
  /\ Contains(out.text, { "vhword", "vhmark" })
  /\ dumpsys_parser_parse(out.text) # None

\* C1: after a get_ui_tree call that returned a tree, the affinity equals the
\* strategy that produced the tree, whatever the affinity was before.
C1_AffinityIsProducer ==
  JustReturned /\ ui_result \in Trees => preferred_method = ui_result

\* C2: with an affinity recorded, the preferred strategy is invoked first,
\* the other one only after the preferred one yielded no tree, and no
\* strategy is invoked again once the call has left it.
C2_PreferredFirst ==
  (pref_at_start \in Trees /\ trace # << >>) =>
    /\ StrategyOf(trace[1]) = pref_at_start
    /\ \A i, j, k \in 1..Len(trace) :
         (i < j /\ j < k /\ StrategyOf(trace[i]) = StrategyOf(trace[k]))
           => StrategyOf(trace[j]) = StrategyOf(trace[i])
    /\ Len(trace) <= 1 + Len(strategies)
    /\ (InUiTree /\ StrategyOf(Last(trace)) # pref_at_start) =>
         /\ output.status # "not issued"
         /\ pref_at_start = "dumpsys" =>
              (strategy > 1 \/ ~DumpsysSucceeded(output))
         /\ pref_at_start = "uiautomator" =>
              (SubSeq(trace, 1, Len(strategies)) = strategies /\ ~VariantSucceeded(output))

C2_Witness ==
  /\ pref_at_start = "dumpsys"
  /\ JustReturned
  /\ trace = << DumpsysCommand, strategies[1], strategies[2] >>
  /\ ui_result = "uiautomator"

\* C3: with no affinity recorded the call starts with Structured; the
\* variants are issued one at a time in the listed order, each at most once,
\* and none is issued after a variant whose output has no error marker and
\* parses to a tree.
C3_VariantsInOrder ==
  (pref_at_start = None /\ trace # << >>) =>
    /\ Len(trace) <= Len(strategies) + 1
    /\ \A i \in 1..Len(trace) :
         trace[i] = IF i <= Len(strategies) THEN strategies[i] ELSE DumpsysCommand
    /\ pc \in UiPositions => (strategy = Len(trace) /\ pc = "L625")
    /\ (InUiTree /\ output.status # "not issued") => ~VariantSucceeded(output)
    /\ (JustReturned /\ Len(trace) <= Len(strategies)) =>
         (VariantSucceeded(output) => ui_result = "uiautomator")

C3_Witness ==
  /\ pref_at_start = None
  /\ JustReturned
  /\ trace = << strategies[1], strategies[2] >>
  /\ VariantSucceeded(output)
  /\ ui_result = "uiautomator"

\* C4: in a call that starts with Structured, Text is attempted only after
\* every Structured variant was issued and failed; it is one invocation of
\* "dumpsys activity top", and its output is parsed at most once.
C4_TextAfterAllVariants ==
  (trace # << >> /\ trace[1] = strategies[1]) =>
    /\ \A i \in 1..Len(trace) :
         trace[i] = DumpsysCommand =>
           (i = Len(strategies) + 1 /\ SubSeq(trace, 1, Len(strategies)) = strategies)
    /\ (pc \in UiPositions /\ strategy > 1) => ~VariantSucceeded(output)
    /\ pc = "L632" => (~VariantSucceeded(output) /\ Last(trace) = DumpsysCommand /\ parse_calls = 0)
    /\ Cardinality({ i \in 1..Len(trace) : trace[i] = DumpsysCommand }) <= 1
    /\ parse_calls <= 1
    /\ parse_calls = 1 => (Last(trace) = DumpsysCommand /\ ~InUiTree)

C4_Witness ==
  /\ JustReturned
  /\ trace = strategies \o << DumpsysCommand >>
  /\ parse_calls = 1
  /\ ui_result = "dumpsys"

\* both strategies were attempted and the one attempted last yielded no tree
BothStrategiesFailed ==
  /\ JustReturned
  /\ Len(trace) = Len(strategies) + 1
  /\ Last(trace) = DumpsysCommand => ~DumpsysSucceeded(output)
  /\ Last(trace) # DumpsysCommand => ~VariantSucceeded(output)

\* C5: when both strategies yield no tree (error marker, unparseable output
\* or an exception of the shell), get_ui_tree returns None and no exception
\* leaves it.
C5_NoTreeNoException ==
  /\ ui_result # "raised"
  /\ BothStrategiesFailed => (ui_result = None /\ a11y_tree = None)
  /\ (pc = "window" /\ output = ShellException) => ui_result = None

C5_Witness ==
  /\ BothStrategiesFailed
  /\ output = ShellException
  /\ ui_result = None

\* variant 1 has returned text with an error marker; variant 2 is awaited
Variant1Marked ==
  /\ pc \in UiPositions
  /\ strategy = 2
  /\ output.status = "returned"
  /\ HasErrorMarker(output.text)

\* C6: after variant 1 returned an error marker the call goes on to variant 2
\* with the affinity unchanged; when variant 2 then succeeds the affinity is
\* Structured, and a call that starts with that affinity tries Structured first.
C6_Scenario ==
  [][ /\ Variant1Marked => preferred_method = pref_at_start
      /\ (Variant1Marked /\ pc' = "window" /\ ui_result' = "uiautomator")
           => preferred_method' = "uiautomator"
      /\ (ui_result # "pending" /\ ui_result' = "pending" /\ preferred_method = "uiautomator")
           => trace' = << strategies[1] >> ]_vars

\* C7: the affinity is written only by the step that completes a get_ui_tree
\* call with a tree; a call that ends without a tree or is cancelled leaves
\* it as it was when the call began.
C7_AffinityOnlyOnSuccess ==
  [][ /\ preferred_method' # preferred_method =>
           (InUiTree /\ pc' = "window" /\ ui_result' \in Trees)
      /\ ui_result' \in { None, "cancelled", "pending" } => preferred_method' = pref_at_start' ]_vars

C7_Witness ==
  /\ ui_result = "cancelled"
  /\ pref_at_start = "uiautomator"
  /\ trace = strategies \o << DumpsysCommand >>
  /\ preferred_method = "uiautomator"

\* C8 (as stated): once a shell invocation of a tree acquisition has raised,
\* no further shell invocation is issued for that acquisition.
C8_NoShellAfterException ==
  output = ShellException => ~InUiTree

\* the order in which get_ui_tree falls from one command to the next
FallsTo(a, b) ==
  \/ \E i \in 1..(Len(strategies) - 1) : a = strategies[i] /\ b = strategies[i + 1]
  \/ a = strategies[Len(strategies)] /\ b = DumpsysCommand /\ pref_at_start # "dumpsys"
  \/ a = DumpsysCommand /\ b = strategies[1] /\ pref_at_start = "dumpsys"

\* C8 (amended): an exception of a tree-acquisition shell invocation is
\* caught; the command that raised is not issued again in that call; the call
\* goes on with the next variant or the other strategy exactly as after any
\* other failure, and returns None when the command that raised was the last.
C8_ExceptionIsOneFailure ==
  /\ \A i, j \in 1..Len(trace) : i # j => trace[i] # trace[j]
  /\ ui_result # "raised"
  /\ (output = ShellException /\ InUiTree) =>
       (Len(trace) >= 2 /\ FallsTo(trace[Len(trace) - 1], Last(trace)))
  /\ (output = ShellException /\ pc = "window") =>
       (ui_result = None /\ Len(trace) = Len(strategies) + 1)

C8_Witness ==
  /\ output = ShellException
  /\ pc = "L625"
  /\ strategy = 2
  /\ trace = << strategies[1], strategies[2] >>

\* the window output names a focused package/activity
WindowRecognised(out) ==
  out.status = "returned" /\ \E i \in 1..Len(out.text) : out.text[i].key /\ out.text[i].comp

\* the input-method output says that the keyboard is shown or requested
ImeShown(out) ==
  out.status = "returned" /\
    \E i \in 1..Len(out.text) : out.text[i] \in { "mInputShown=true", "mShowRequested=true" }

\* the first size line of the `wm size` output reads <number>x<number>
WmRecognised(out) ==
  /\ out.status = "returned"
  /\ \E i \in 1..Len(out.text) :
       /\ out.text[i].key
       /\ \A j \in 1..(i - 1) : ~out.text[j].key
       /\ Len(out.text[i].fields) = 2
       /\ \A k \in 1..2 : out.text[i].fields[k].num

C10_Safety ==
  /\ attempt \in 0..(max_retries - 1)
  /\ \A i \in 1..Len(sleeps) : sleeps[i] = 500
  /\ pc = "sleep" => (Len(sleeps) = attempt + 1 /\ attempt < max_retries - 1)
  /\ (pc # "sleep" /\ outcome # "cancelled") => Len(sleeps) = attempt
  /\ outcome = "raised" => (pc = "idle" /\ attempt = 2 /\ Len(sleeps) = 2)
  /\ outcome = "returned" => (pc = "idle" /\ Len(sleeps) = attempt)

\* C10: AdbTools.get_state makes at most 3 attempts, sleeps 0.5 s between
\* two attempts and not after the last, returns at the first attempt that
\* succeeds, raises after the third failure, and always terminates.
C10_BoundedRetries ==
  /\ []C10_Safety
  /\ (outcome = "pending") ~> (outcome # "pending")

C10_Witness ==
  /\ outcome = "raised"
  /\ attempt = 2
  /\ sleeps = << 500, 500 >>

\* C11: an index-based tap made after a get_state call has started resolves
\* its index only against elements that this latest call cached, never
\* against the cache of an earlier call, also when the latest call failed.
C11_TapNeverUsesOlderCache ==
  (last_tap.result = "resolved" /\ outcome \in { "returned", "raised" })
    => last_tap.cycle = calls

\* the output shows "ERROR", or in whatever case "could not get idle state"
ShowsErrorText(text) == \E i \in 1..Len(text) : text[i] \in { "ERROR", "xmlERROR", "idle", "IDLE" }

\* the output is a hierarchy dump with a node and nothing else, but for what
\* its attribute values show
PlainDumps ==
  { << "xml" >>, << "xmlERROR" >>, << "xmlerror" >>, << "xmldecl", "xml" >> }

\* the shell call that returned last was a Structured variant
AfterVariant ==
  /\ output.status = "returned"
  /\ \/ pc \in UiPositions /\ strategy > 1
     \/ pc = "L632"
     \/ JustReturned /\ Last(trace) # DumpsysCommand

\* the call has returned the tree of the variant that returned last
VariantTaken == JustReturned /\ ui_result = "uiautomator" /\ Last(trace) # DumpsysCommand

\* C33: a Structured variant whose output contains "ERROR" (as written) or,
\* in any case, "could not get idle state" is treated as failed and its tree
\* is never taken; a hierarchy dump is taken exactly when it shows neither,
\* also when the text is inside an attribute value only.
C33_ErrorTextFailsTheVariant ==
  AfterVariant =>
    /\ ShowsErrorText(output.text) => ~VariantTaken
    /\ output.text \in PlainDumps => (VariantTaken <=> ~ShowsErrorText(output.text))

\* the first variant returned a dump with ERROR in an attribute value and
\* the call has gone on to the second
C33_Witness ==
  /\ pc \in UiPositions
  /\ strategy = 2
  /\ output = Returned(<< "xmlERROR" >>)

FailsPartWay ==
  /\ pc \in { "wm_size", "portal" }
  /\ ~(pc' = "idle" /\ outcome' = "returned")

\* C35: raw_tree_cache, filtered_tree_cache, clickable_elements_cache and
\* the stored screen dimensions are all of one acquisition: a get_state
\* attempt that fails part-way, in filtering or formatting, changes none of
\* them.
C35_FailedAttemptChangesNoCache ==
  [][ FailsPartWay =>
        UNCHANGED << screen_width, screen_height, raw_tree_cache, filtered_tree_cache,
                     clickable_elements_cache >> ]_vars

\* =================================================== concurrent callers
\* Several coroutines of one event loop call get_state on the same AdbTools
\* object.  inflight[c] is where the call of caller c is suspended; the
\* steps are those of the acquisition above, taken by one caller at a time,
\* on the shared _preferred_method.
NumCallers == 2
Callers == 1..NumCallers

CallerIdle == [pc |-> "idle", attempt |-> 0, strategy |-> 0]
At(c, p, att, i) == [inflight EXCEPT ![c] = [pc |-> p, attempt |-> att, strategy |-> i]]
InFlight(c) == inflight[c].pc # "idle"

\* get_ui_tree is entered (line 617) by caller c in attempt att
CallerEntersUiTree(c, att) ==
  inflight' = IF FirstStrategy(preferred_method) = "dumpsys"
              THEN At(c, "L618", att, 0)
              ELSE At(c, "L625", att, 1)

\* get_ui_tree returns to the provider's get_state, which goes on to
\* get_phone_state
CallerHasTree(c) == inflight' = At(c, "window", inflight[c].attempt, 0)

\* the except branch of the retry loop (lines 1016-1025)
CallerAttemptFailed(c) ==
  inflight' = IF RetryAgain(inflight[c].attempt)
              THEN At(c, "sleep", inflight[c].attempt, 0)
              ELSE At(c, "idle", 0, 0)

\* what the concurrent callers leave alone
callerFrame ==
  << automotive_mode, pc, callVars, strategy, output, trace, obsVars, localVars,
     cacheVars, last_tap, parserVars, tapVars, extraVars >>

\* a caller calls AdbTools.get_state: nothing in get_state, get_ui_tree or
\* _ensure_connected waits for a call that is in flight
CallerGetState(c) ==
  /\ UNCHANGED callerFrame
  /\ inflight[c].pc = "idle"
  /\ CallerEntersUiTree(c, 0)
  /\ UNCHANGED preferred_method

CallerSleepReturns(c) ==
  /\ UNCHANGED callerFrame
  /\ inflight[c].pc = "sleep"
  /\ CallerEntersUiTree(c, inflight[c].attempt + 1)
  /\ UNCHANGED preferred_method

CallerUiautomatorShellReturns(c) ==
  /\ UNCHANGED callerFrame
  /\ inflight[c].pc \in UiPositions
  /\ \E out \in ShellResults(UiOutputs) :
       LET me == inflight[c]
           res == TryVariant(out)
           control == LoopControl(res, me.strategy)
       IN  CASE control = "raise" ->
                  /\ CallerAttemptFailed(c)
                  /\ UNCHANGED preferred_method
             [] control = "next" ->
                  /\ inflight' = At(c, me.pc, me.attempt, NextVariant(res, me.strategy))
                  /\ UNCHANGED preferred_method
             [] control = "return_tree" ->
                  /\ preferred_method' = AffinityAfterUiautomator(preferred_method, me.pc)
                  /\ CallerHasTree(c)
             [] control = "return_none" /\ me.pc = "L622" ->
                  /\ CallerHasTree(c)
                  /\ UNCHANGED preferred_method
             [] control = "return_none" /\ me.pc = "L625" ->
                  /\ inflight' = At(c, "L632", me.attempt, 0)
                  /\ UNCHANGED preferred_method

CallerDumpsysShellReturns(c) ==
  /\ UNCHANGED callerFrame
  /\ inflight[c].pc \in DumpsysPositions
  /\ \E out \in ShellResults(DumpsysOutputs) :
       LET me == inflight[c]
           res == TryDumpsys(out)
       IN  CASE me.pc = "L618" /\ res = "tree" ->
                  /\ CallerHasTree(c)
                  /\ UNCHANGED preferred_method
             [] me.pc = "L618" /\ res # "tree" ->
                  /\ inflight' = At(c, "L622", me.attempt, 1)
                  /\ UNCHANGED preferred_method
             [] me.pc = "L632" ->
                  /\ preferred_method' = AffinityAfterFallback(preferred_method, res)
                  /\ CallerHasTree(c)

\* the shell calls of get_phone_state and get_screen_size return or raise
\* (lines 716, 721, 778); after the last one get_state processes the data
CallerPhoneShellReturns(c) ==
  /\ UNCHANGED callerFrame
  /\ inflight[c].pc \in { "window", "ime" }
  /\ \E next \in IF inflight[c].pc = "window" THEN { "ime", "wm_size" } ELSE { "wm_size" } :
       inflight' = At(c, next, inflight[c].attempt, 0)
  /\ UNCHANGED preferred_method

CallerWmSizeShellReturns(c) ==
  /\ UNCHANGED callerFrame
  /\ inflight[c].pc = "wm_size"
  /\ \E filtering \in { "ok", "filter_raises", "format_raises" } :
       IF filtering = "ok"
       THEN inflight' = At(c, "idle", 0, 0)
       ELSE CallerAttemptFailed(c)
  /\ UNCHANGED preferred_method

ConcInit ==
  /\ automotive_mode = TRUE
  /\ Constructed
  /\ inflight = [c \in Callers |-> CallerIdle]
  /\ ParserIdle
  /\ TapIdle
  /\ ExtraIdle

ConcNext ==
  \E c \in Callers :
    \/ CallerGetState(c)
    \/ CallerSleepReturns(c)
    \/ CallerUiautomatorShellReturns(c)
    \/ CallerDumpsysShellReturns(c)
    \/ CallerPhoneShellReturns(c)
    \/ CallerWmSizeShellReturns(c)

ConcSpec == ConcInit /\ [][ConcNext]_vars

\* C12: at any time at most one acquisition of the device session is in
\* flight, also when two callers request state concurrently.
C12_AtMostOneInFlight ==
  Cardinality({ c \in DOMAIN inflight : InFlight(c) }) <= 1

\* ============================================================== parsers
\* UIAutomatorParser and DumpsysParser as functions of the text they are
\* given.  An Optional result is a sequence of at most one element.
Nothing == << >>
Some(x) == << x >>

\* A decimal numeral is the sequence of its digits; int() of it
RECURSIVE ToInt(_)
ToInt(ds) ==
  IF ds = << >> THEN 0 ELSE 10 * ToInt(SubSeq(ds, 1, Len(ds) - 1)) + ds[Len(ds)]

\* An attribute value or a line is a sequence of tokens: a maximal run of
\* digits, or one of the other characters (words stand for runs of letters)
Sym(c) == [sym |-> c, digits |-> << >>]
Digits(ds) == [sym |-> "digits", digits |-> ds]

\* re.match: the pattern matches a prefix of the text
Match(pattern, str) ==
  /\ Len(str) >= Len(pattern)
  /\ \A i \in 1..Len(pattern) : str[i].sym = pattern[i]

\* re.search: the first position the pattern matches at, 0 if none
Search(pattern, str) ==
  LET hits == { i \in 1..Len(str) : Match(pattern, SubSeq(str, i, Len(str))) }
  IN  IF hits = {} THEN 0 ELSE CHOOSE i \in hits : \A j \in hits : i <= j

Rect(l, t, r, b) == [left |-> l, top |-> t, right |-> r, bottom |-> b]

\* ---------------------------------------------------- UIAutomatorParser
\* r"\[(\d+),(\d+)\]\[(\d+),(\d+)\]"
XML_BOUNDS_PATTERN == << "[", "digits", ",", "digits", "]", "[", "digits", ",", "digits", "]" >>

\* the text "[l,t][r,b]" of the numerals l, t, r, b
XmlBounds(l, t, r, b) ==
  << Sym("["), Digits(l), Sym(","), Digits(t), Sym("]"),
     Sym("["), Digits(r), Sym(","), Digits(b), Sym("]") >>

\* _parse_bounds with the groups of right and bottom exchanged
ParseBoundsSwapped(bounds_str) ==
  IF Match(XML_BOUNDS_PATTERN, bounds_str)
  THEN Rect(ToInt(bounds_str[2].digits), ToInt(bounds_str[4].digits),
            ToInt(bounds_str[9].digits), ToInt(bounds_str[7].digits))
  ELSE Rect(0, 0, 0, 0)

\* UIAutomatorParser._parse_bounds
xml_parse_bounds(bounds_str) ==
  IF Match(XML_BOUNDS_PATTERN, bounds_str)
  THEN Rect(ToInt(bounds_str[2].digits), ToInt(bounds_str[4].digits),
            ToInt(bounds_str[7].digits), ToInt(bounds_str[9].digits))
  ELSE Rect(0, 0, 0, 0)

\* An element of the document: tag, attributes (a function from the names
\* of the attributes present to their values) and child elements in order
Element(tag, attrs, children) == [tag |-> tag, attrs |-> attrs, children |-> children]

\* element.get(key, default)
Get(attrs, key, default) == IF key \in DOMAIN attrs THEN attrs[key] ELSE default

\* str.lower on the attribute values of the documents below
lower(s) ==
  CASE s \in { "true", "True", "TRUE" } -> "true"
    [] s \in { "false", "False", "FALSE" } -> "false"
    [] s = "Yes" -> "yes"
    [] OTHER -> s

\* _parse_node, lines 125-148: the dict of one <node> element
NodeDict(attrs, children) ==
  [className |-> Get(attrs, "class", ""),
   text |-> Get(attrs, "text", ""),
   resourceId |-> Get(attrs, "resource-id", ""),
   contentDescription |-> Get(attrs, "content-desc", ""),
   hint |-> Get(attrs, "hint", ""),
   boundsInScreen |-> xml_parse_bounds(Get(attrs, "bounds", XmlBounds(<<0>>, <<0>>, <<0>>, <<0>>))),
   clickable |-> lower(Get(attrs, "clickable", "false")) = "true",
   focusable |-> lower(Get(attrs, "focusable", "false")) = "true",
   focused |-> lower(Get(attrs, "focused", "false")) = "true",
   enabled |-> lower(Get(attrs, "enabled", "true")) = "true",
   scrollable |-> lower(Get(attrs, "scrollable", "false")) = "true",
   checkable |-> lower(Get(attrs, "checkable", "false")) = "true",
   checked |-> lower(Get(attrs, "checked", "false")) = "true",
   selected |-> lower(Get(attrs, "selected", "false")) = "true",
   longClickable |-> lower(Get(attrs, "long-clickable", "false")) = "true",
   password |-> lower(Get(attrs, "password", "false")) = "true",
   package |-> Get(attrs, "package", ""),
   children |-> children]

\* UIAutomatorParser._parse_node; xml_parse_nodes is the loop over the
\* children that keeps what is not None
RECURSIVE xml_parse_node(_), xml_parse_nodes(_)
xml_parse_node(element) ==
  IF element.tag # "node"
  THEN Nothing
  ELSE Some(NodeDict(element.attrs, xml_parse_nodes(element.children)))

xml_parse_nodes(elements) ==
  IF elements = << >>
  THEN << >>
  ELSE xml_parse_node(Head(elements)) \o xml_parse_nodes(Tail(elements))

Min(S) == CHOOSE x \in S : \A y \in S : x <= y
Max(S) == CHOOSE x \in S : \A y \in S : x >= y
Range(seq) == { seq[i] : i \in 1..Len(seq) }

\* _get_screen_bounds that takes the bounds of the first child
ScreenBoundsOfFirst(children) ==
  IF children = << >> THEN Rect(0, 0, DefaultWidth, DefaultHeight) ELSE children[1].boundsInScreen

\* UIAutomatorParser._get_screen_bounds
get_screen_bounds(children) ==
  IF children = << >>
  THEN Rect(0, 0, DefaultWidth, DefaultHeight)
  ELSE Rect(Min({ c.boundsInScreen.left : c \in Range(children) }),
            Min({ c.boundsInScreen.top : c \in Range(children) }),
            Max({ c.boundsInScreen.right : c \in Range(children) }),
            Max({ c.boundsInScreen.bottom : c \in Range(children) }))

\* the virtual container of lines 83-98 and 286-301
VirtualRoot(bounds, children) ==
  [className |-> "VirtualRoot",
   text |-> "",
   resourceId |-> "",
   contentDescription |-> "",
   boundsInScreen |-> bounds,
   clickable |-> FALSE,
   focusable |-> FALSE,
   focused |-> FALSE,
   enabled |-> TRUE,
   children |-> children]

\* The text given to UIAutomatorParser.parse is a sequence of pieces:
\*   space    whitespace
\*   junk     text without "<hierarchy" that is no markup (a banner, a notice)
\*   decl     the declaration "<?xml ... ?>"
\*   element  a well-formed element with its subtree
\*   open     text starting with "<hierarchy" whose markup is not well-formed
Piece(kind) == [kind |-> kind]
ElementPiece(element) == [kind |-> "element", element |-> element]

\* str.strip
strip(pieces) ==
  LET solid == { i \in 1..Len(pieces) : pieces[i].kind # "space" }
  IN  IF solid = {} THEN << >> ELSE SubSeq(pieces, Min(solid), Max(solid))

\* the piece starts with "<hierarchy"
StartsHierarchy(piece) ==
  \/ piece.kind = "open"
  \/ piece.kind = "element" /\ piece.element.tag = "hierarchy"

\* xml_content.find("<hierarchy"): the index of the piece, 0 for -1
FindHierarchy(pieces) ==
  LET hits == { i \in 1..Len(pieces) : StartsHierarchy(pieces[i]) }
  IN  IF hits = {} THEN 0 ELSE Min(hits)

\* ET.fromstring accepts the text: an optional declaration at the very
\* start, then exactly one element, with nothing but whitespace around it
WellFormed(pieces) ==
  LET body == IF pieces # << >> /\ pieces[1].kind = "decl" THEN Tail(pieces) ELSE pieces
      solid == { i \in 1..Len(body) : body[i].kind # "space" }
  IN  /\ Cardinality(solid) = 1
      /\ \A i \in solid : body[i].kind = "element"

\* the root element ET.fromstring returns
RootOf(pieces) ==
  LET i == CHOOSE i \in 1..Len(pieces) : pieces[i].kind = "element"
  IN  pieces[i].element

\* what a parse call comes to
ParseReturns(value) == [status |-> "returned", value |-> value]
ParseRaises == [status |-> "raised", value |-> Nothing]

\* parse without the except clauses
ParseErrorEscapes == ParseRaises

\* the except clauses of lines 102-109: ET.ParseError is logged
OnParseError == ParseReturns(Nothing)

\* UIAutomatorParser.parse
xml_parse(xml_content) ==
  LET stripped == strip(xml_content)
      marked == /\ stripped # << >>
                /\ (stripped[1].kind = "decl" \/ StartsHierarchy(stripped[1]))
      start_idx == FindHierarchy(stripped)
      content == IF marked THEN stripped ELSE SubSeq(stripped, start_idx, Len(stripped))
  IN  IF ~marked /\ start_idx = 0
      THEN ParseReturns(Nothing)
      ELSE IF ~WellFormed(content)
      THEN OnParseError
      ELSE IF RootOf(content).tag = "hierarchy"
      THEN LET children == xml_parse_nodes(RootOf(content).children)
           IN  IF Len(children) = 1
               THEN ParseReturns(Some(children[1]))
               ELSE IF Len(children) > 1
               THEN ParseReturns(Some(VirtualRoot(get_screen_bounds(children), children)))
               ELSE ParseReturns(Nothing)
      ELSE ParseReturns(xml_parse_node(RootOf(content)))

\* ------------------------------------------------ structured dumps given
\* the most elements directly under <hierarchy>, and under one <node>
MaxTop == 4
MaxChildren == 2

SeqsUpTo(S, n) == UNION { [1..k -> S] : k \in 0..n }

FlagAttrs ==
  { "clickable", "focusable", "focused", "enabled", "scrollable", "checkable",
    "checked", "selected", "long-clickable", "password" }
Flags(v) == [f \in FlagAttrs |-> v]
MixedFlags ==
  [f \in FlagAttrs |->
     IF f \in { "clickable", "enabled", "checked" } THEN "True"
     ELSE IF f \in { "focused", "password" } THEN "TRUE"
     ELSE IF f = "selected" THEN "False" ELSE "false"]
OnlyClickable == [f \in { "clickable" } |-> "true"]
NoAttrs == [f \in {} |-> ""]

\* the attributes of a <node>: class, bounds (unless absent) and flags
Attrs(class, bounds, flags) ==
  [k \in { "class" } \cup { b \in { "bounds" } : bounds # Nothing } \cup DOMAIN flags |->
     IF k = "class" THEN class ELSE IF k = "bounds" THEN bounds[1] ELSE flags[k]]
Node(class, bounds, flags, children) == Element("node", Attrs(class, bounds, flags), children)

B1 == XmlBounds(<<0>>, <<0>>, <<5, 0>>, <<5, 0>>)
B2 == XmlBounds(<<5, 0>>, <<5, 0>>, <<1, 0, 0>>, <<1, 0, 0>>)
B3 == XmlBounds(<<0, 1, 0>>, <<2, 0>>, <<3, 0>>, <<0, 4, 0>>)
\* right < left and bottom < top
BInverted == XmlBounds(<<5, 0>>, <<5, 0>>, <<0>>, <<0>>)
\* "[-5,0][50,50]"
BNegative ==
  << Sym("["), Sym("-"), Digits(<<5>>), Sym(","), Digits(<<0>>), Sym("]"),
     Sym("["), Digits(<<5, 0>>), Sym(","), Digits(<<5, 0>>), Sym("]") >>
\* "[50,50][100,100]px"
BTrailing == B2 \o << Sym("px") >>

WellFormedBounds == { Some(B1), Some(B2), Some(B3) }
XmlBoundsValues == WellFormedBounds \cup { Some(BInverted), Some(BNegative), Some(BTrailing), Nothing }
LiteralFlags == { Flags("false"), Flags("true"), MixedFlags }
XmlFlagValues == LiteralFlags \cup { Flags("Yes"), OnlyClickable, NoAttrs }

Hierarchy(children) == Element("hierarchy", NoAttrs, children)
Other == Element("other", NoAttrs, << >>)

TopElements ==
  { Node("A", Some(B1), Flags("false"), << >>),
    Node("B", Some(B2), MixedFlags, << >>),
    Node("C", Some(B3), Flags("true"), << Node("D", Some(B1), Flags("false"), << >>) >>),
    Other }
ChildElements ==
  { Node("D", Some(B1), Flags("false"), << >>),
    Node("E", Some(B2), MixedFlags, << Node("F", Some(B3), Flags("true"), << >>) >>),
    Other }

\* one <node> under <hierarchy>, over all bounds and flag values
SingleNodeDocuments ==
  { << ElementPiece(Hierarchy(<< Node("A", b, f, << >>) >>)) >> :
      b \in XmlBoundsValues, f \in XmlFlagValues }
\* several elements under <hierarchy>
ManyRootsDocuments ==
  { << ElementPiece(Hierarchy(cs)) >> : cs \in SeqsUpTo(TopElements, MaxTop) }
\* several elements under one <node>
NestedDocuments ==
  { << ElementPiece(Hierarchy(<< Node("A", Some(B2), MixedFlags, cs) >>)) >> :
      cs \in SeqsUpTo(ChildElements, MaxChildren) }
\* text before, between and after: banners, declaration, whitespace, and
\* roots other than <hierarchy>
Leads == { << >>, << Piece("space") >>, << Piece("junk") >>, << Piece("junk"), Piece("space") >> }
Trails == { << >>, << Piece("space") >>, << Piece("junk") >> }
Roots ==
  { ElementPiece(Hierarchy(<< Node("A", Some(B1), Flags("false"), << >>) >>)),
    ElementPiece(Hierarchy(<< Other >>)),
    ElementPiece(Node("A", Some(B1), Flags("false"), << >>)),
    ElementPiece(Other),
    Piece("open") }
WrappedDocuments ==
  { lead \o decl \o << root >> \o trail :
      lead \in Leads, decl \in { << >>, << Piece("decl") >> }, root \in Roots, trail \in Trails }
  \cup { << >>, << Piece("junk") >>, << Piece("decl") >> }

XmlDocuments ==
  SingleNodeDocuments \cup ManyRootsDocuments \cup NestedDocuments \cup WrappedDocuments

XmlDump(text) == [parser |-> "uiautomator", text |-> text]

\* ------------------------------------------------- the parsers are called
\* UIAutomatorParser().parse(dump.text)
UIAutomatorParserParse ==
  /\ dump.parser = "uiautomator"
  /\ parsed = NotParsed
  /\ parsed' = xml_parse(dump.text)
  /\ UNCHANGED << dump, acqVars, inflight, tapVars, extraVars >>

\* ------------------------------------------------- properties of xml_parse
\* the value of a numeral of at most three digits, by the weights of its digits
DecimalValue(ds) ==
  LET n == Len(ds)
  IN  (IF n >= 1 THEN ds[n] ELSE 0) + (IF n >= 2 THEN 10 * ds[n - 1] ELSE 0)
        + (IF n >= 3 THEN 100 * ds[n - 2] ELSE 0)

TrueLiterals == { "true", "True", "TRUE" }
BooleanLiterals == TrueLiterals \cup { "false", "False", "FALSE" }
\* the key of the result that carries a flag attribute
FlagKey(f) == IF f = "long-clickable" THEN "longClickable" ELSE f
FlagKeys == { FlagKey(f) : f \in FlagAttrs }

\* a <node> as uiautomator writes it, with all of its subtree
RECURSIVE ValidNode(_)
ValidNode(e) ==
  /\ e.tag = "node"
  /\ "bounds" \in DOMAIN e.attrs
  /\ Len(e.attrs["bounds"]) = Len(XML_BOUNDS_PATTERN)
  /\ Match(XML_BOUNDS_PATTERN, e.attrs["bounds"])
  /\ \A f \in FlagAttrs : f \in DOMAIN e.attrs /\ e.attrs[f] \in BooleanLiterals
  /\ \A i \in 1..Len(e.children) : ValidNode(e.children[i])

\* the text is one <hierarchy> element and nothing else
IsHierarchy(text) ==
  /\ Len(text) = 1
  /\ text[1].kind = "element"
  /\ text[1].element.tag = "hierarchy"

ValidDump(text) ==
  /\ IsHierarchy(text)
  /\ \A i \in 1..Len(text[1].element.children) : ValidNode(text[1].element.children[i])

\* node is element read field by field, children in the order of the source
RECURSIVE Mirrors(_, _)
Mirrors(node, e) ==
  /\ node.className = e.attrs["class"]
  /\ node.boundsInScreen =
       Rect(DecimalValue(e.attrs["bounds"][2].digits), DecimalValue(e.attrs["bounds"][4].digits),
            DecimalValue(e.attrs["bounds"][7].digits), DecimalValue(e.attrs["bounds"][9].digits))
  /\ \A f \in FlagAttrs : node[FlagKey(f)] = (e.attrs[f] \in TrueLiterals)
  /\ Len(node.children) = Len(e.children)
  /\ \A i \in 1..Len(e.children) : Mirrors(node.children[i], e.children[i])

XmlParsed == dump.parser = "uiautomator" /\ parsed # NotParsed
TopOf(text) == text[1].element.children

\* C13: of a valid structured dump, parse returns a tree whose nodes have
\* their children in the order of the source elements, bounds fields equal
\* to the source integers, and each flag true exactly when its attribute is
\* "true" in any case.
C13_FieldsAndOrderPreserved ==
  (XmlParsed /\ ValidDump(dump.text) /\ TopOf(dump.text) # << >>) =>
    /\ parsed.status = "returned"
    /\ Len(parsed.value) = 1
    /\ LET tree == parsed.value[1]
           top == TopOf(dump.text)
       IN  IF Len(top) = 1
           THEN Mirrors(tree, top[1])
           ELSE /\ Len(tree.children) = Len(top)
                /\ \A i \in 1..Len(top) : Mirrors(tree.children[i], top[i])

C13_Witness ==
  /\ XmlParsed
  /\ dump.text =
       << ElementPiece(Hierarchy(<<
            Node("A", Some(B2), MixedFlags,
                 << Node("E", Some(B2), MixedFlags, << Node("F", Some(B3), Flags("true"), << >>) >>),
                    Node("D", Some(B1), Flags("false"), << >>) >>) >>)) >>
  /\ parsed.value[1].children[1].className = "E"
  /\ parsed.value[1].children[1].children[1].boundsInScreen = Rect(10, 20, 30, 40)
  /\ parsed.value[1].clickable /\ ~parsed.value[1].selected

NodeElements(elements) == SelectSeq(elements, LAMBDA e : e.tag = "node")

\* C14: several top-level nodes under <hierarchy> come back as one
\* synthetic container with the union of their bounds, default flags and
\* the nodes as its children in source order; one top-level node comes
\* back as itself.
C14_ContainerOfTopLevelNodes ==
  (XmlParsed /\ IsHierarchy(dump.text)) =>
    LET top == NodeElements(TopOf(dump.text))
        tree == parsed.value[1]
        kids == tree.children
    IN  /\ Len(top) > 1 =>
             /\ Len(parsed.value) = 1
             /\ tree.className = "VirtualRoot"
             /\ \A key \in FlagKeys \cap DOMAIN tree : tree[key] = (key = "enabled")
             /\ { "clickable", "focusable", "focused", "enabled" } \subseteq DOMAIN tree
             /\ Len(kids) = Len(top)
             /\ \A i \in 1..Len(top) :
                  /\ kids[i].className = top[i].attrs["class"]
                  /\ Len(kids[i].children) = Len(NodeElements(top[i].children))
             /\ \A i \in 1..Len(kids) :
                  /\ tree.boundsInScreen.left <= kids[i].boundsInScreen.left
                  /\ tree.boundsInScreen.top <= kids[i].boundsInScreen.top
                  /\ tree.boundsInScreen.right >= kids[i].boundsInScreen.right
                  /\ tree.boundsInScreen.bottom >= kids[i].boundsInScreen.bottom
             /\ \E i \in 1..Len(kids) : tree.boundsInScreen.left = kids[i].boundsInScreen.left
             /\ \E i \in 1..Len(kids) : tree.boundsInScreen.top = kids[i].boundsInScreen.top
             /\ \E i \in 1..Len(kids) : tree.boundsInScreen.right = kids[i].boundsInScreen.right
             /\ \E i \in 1..Len(kids) : tree.boundsInScreen.bottom = kids[i].boundsInScreen.bottom
        /\ Len(top) = 1 =>
             /\ Len(parsed.value) = 1
             /\ tree.className = top[1].attrs["class"]
             /\ Len(kids) = Len(NodeElements(top[1].children))

C14_Witness ==
  /\ XmlParsed
  /\ IsHierarchy(dump.text)
  /\ Len(TopOf(dump.text)) = 4
  /\ Len(NodeElements(TopOf(dump.text))) = 3
  /\ TopOf(dump.text)[2] = Other
  /\ parsed.value[1].className = "VirtualRoot"
  /\ parsed.value[1].boundsInScreen = Rect(0, 0, 100, 100)
  /\ parsed.value[1].children[1].className = "C"
  /\ parsed.value[1].children[3].className = "A"

\* the text holds markup that is not well-formed, or text after its root
Unparseable(text) ==
  \/ \E i \in 1..Len(text) : text[i].kind = "open"
  \/ \E i, j \in 1..Len(text) : i < j /\ text[i].kind = "element" /\ text[j].kind = "junk"
\* the text does not contain "<hierarchy"
NoMarker(text) == \A i \in 1..Len(text) : ~StartsHierarchy(text[i])
\* the text is a <hierarchy> element, whatever surrounds it, without <node> children
HierarchyWithoutNode(text) ==
  \E i \in 1..Len(text) :
    /\ text[i].kind = "element"
    /\ text[i].element.tag = "hierarchy"
    /\ NodeElements(text[i].element.children) = << >>
\* the first thing in the text that is not whitespace is the declaration
StartsWithDeclaration(text) ==
  \E i \in 1..Len(text) :
    /\ text[i].kind = "decl"
    /\ \A j \in 1..(i - 1) : text[j].kind = "space"

\* the <node> elements a tree has a dict for, and the dicts of a tree
RECURSIVE NodeCount(_), NodeCountAll(_), TreeSize(_), TreeSizeAll(_)
NodeCount(e) == IF e.tag = "node" THEN 1 + NodeCountAll(e.children) ELSE 0
NodeCountAll(es) == IF es = << >> THEN 0 ELSE NodeCount(Head(es)) + NodeCountAll(Tail(es))
TreeSize(node) == 1 + TreeSizeAll(node.children)
TreeSizeAll(nodes) == IF nodes = << >> THEN 0 ELSE TreeSize(Head(nodes)) + TreeSizeAll(Tail(nodes))

\* a returned tree has a dict for every <node> of the document
WholeTree(text, tree) ==
  \E i \in 1..Len(text) :
    /\ text[i].kind = "element"
    /\ LET root == text[i].element
       IN  TreeSize(tree) =
             IF root.tag = "node" THEN NodeCount(root)
             ELSE IF tree.className = "VirtualRoot" THEN 1 + NodeCountAll(root.children)
             ELSE NodeCountAll(root.children)

\* C18 as stated: parse never raises, and returns None for unparseable
\* markup, for input without a <hierarchy> marker and for a hierarchy
\* without a node element.
C18_NoneWithoutHierarchyMarker ==
  XmlParsed =>
    /\ parsed.status = "returned"
    /\ (Unparseable(dump.text) \/ NoMarker(dump.text) \/ HierarchyWithoutNode(dump.text))
         => parsed.value = Nothing

\* C18, amended: parse never raises; it returns None for unparseable
\* markup, for a hierarchy without a node element, and for input without
\* a <hierarchy> marker unless that input starts with an XML declaration;
\* a tree it returns holds every node of the document.
C18_NoneOrWholeTree ==
  XmlParsed =>
    /\ parsed.status = "returned"
    /\ (Unparseable(dump.text) \/ HierarchyWithoutNode(dump.text)) => parsed.value = Nothing
    /\ (NoMarker(dump.text) /\ ~StartsWithDeclaration(dump.text)) => parsed.value = Nothing
    /\ ( /\ StartsWithDeclaration(dump.text)
         /\ ~Unparseable(dump.text)
         /\ \E i \in 1..Len(dump.text) :
              dump.text[i].kind = "element" /\ dump.text[i].element.tag = "node" )
         => parsed.value # Nothing
    /\ parsed.value # Nothing =>
         /\ Len(parsed.value) = 1
         /\ WholeTree(dump.text, parsed.value[1])

C18_Witness ==
  /\ XmlParsed
  /\ dump.text = << Piece("junk"), Piece("space"), Piece("decl"), Piece("open"), Piece("space") >>
  /\ parsed = ParseReturns(Nothing)

\* --------------------------------------------------------- DumpsysParser
\* The text given to DumpsysParser.parse is a sequence of lines (the text
\* between two "\n").  A line is its leading spaces, the word it starts
\* with, and the fields after that word, which single spaces separate and
\* which stand between braces ("word{field field}") or not ("word field");
\* a field is a sequence of tokens.  A line of spaces only has the empty
\* word and no field.
Line(indent, head, braces, fields) ==
  [indent |-> indent, head |-> head, braces |-> braces, fields |-> fields]
BlankLine(indent) == Line(indent, "", FALSE, << >>)
TextLine(indent, head) == Line(indent, head, FALSE, << >>)

\* line.strip() is empty
IsBlank(line) == line.head = "" /\ ~line.braces

\* the characters of a field
Chars(cs) == [i \in DOMAIN cs |-> Sym(cs[i])]

\* r"(\d+),(\d+)-(\d+),(\d+)"
BOUNDS_PATTERN == << "digits", ",", "digits", "-", "digits", ",", "digits" >>

\* the text "l,t-r,b" of the numerals l, t, r, b
TextBounds(l, t, r, b) ==
  << Digits(l), Sym(","), Digits(t), Sym("-"), Digits(r), Sym(","), Digits(b) >>

\* the groups of a match of BOUNDS_PATTERN that starts at token i
BoundsAt(field, i) ==
  Rect(ToInt(field[i].digits), ToInt(field[i + 2].digits),
       ToInt(field[i + 4].digits), ToInt(field[i + 6].digits))

\* BOUNDS_PATTERN.search over fields: the first field it matches in, 0 if none
SearchBounds(fields) ==
  LET hits == { k \in 1..Len(fields) : Search(BOUNDS_PATTERN, fields[k]) # 0 }
  IN  IF hits = {} THEN 0 ELSE Min(hits)

\* the character classes of VIEW_PATTERN
HexLetters == { "a", "b", "c", "d", "e", "f", "A", "B", "C", "D", "E", "F" }
VisChars == { "V", "I", "G", "E", "F", "D", "S", "." }
OtherChars == { ".", "L", "C", "P", "X", "S", "H", "O", "D" }
IsHex(field) ==
  /\ field # << >>
  /\ \A i \in 1..Len(field) : field[i].sym = "digits" \/ field[i].sym \in HexLetters
AllIn(field, chars) ==
  /\ field # << >>
  /\ \A i \in 1..Len(field) : field[i].sym \in chars

\* the words of the lines below: class names ([a-zA-Z0-9_.]+), resource
\* names ([a-zA-Z0-9_.:$/]+), and words that are neither
ClassNames == { "A", "B", "C", "D" }
ResourceNames == { "android:id/content" }
IsClassName(word) == word \in ClassNames
IsResourceName(field) == Len(field) = 1 /\ field[1].sym \in ResourceNames \cup ClassNames

\* r"#[a-fA-F0-9]+" is the whole field
IsResourceRef(field) ==
  /\ Len(field) >= 2
  /\ field[1].sym = "#"
  /\ IsHex(Tail(field))

\* c in field
In(c, field) == \E i \in 1..Len(field) : field[i].sym = c

\* " c" in content or ".c" in content
AfterSpaceOrDot(c, fields) ==
  \/ \E k \in 2..Len(fields) : fields[k] # << >> /\ fields[k][1].sym = c
  \/ \E k \in 1..Len(fields) : \E i \in 2..Len(fields[k]) :
       fields[k][i].sym = c /\ fields[k][i - 1].sym = "."

\* the text a sequence of fields reads as; a line below has one word of
\* text at most
WordOf(fields) ==
  IF fields = << >> \/ fields[1] = << >> THEN "" ELSE fields[1][1].sym

\* the dict every branch of the text parser builds (lines 449-467, 493-516, 546-564)
ViewDict(class_name, text, resource_id, bounds, clickable, focusable, focused, enabled, selected, long_clickable) ==
  [className |-> class_name,
   text |-> text,
   resourceId |-> resource_id,
   contentDescription |-> "",
   boundsInScreen |-> bounds,
   clickable |-> clickable,
   focusable |-> focusable,
   focused |-> focused,
   enabled |-> enabled,
   scrollable |-> FALSE,
   checkable |-> FALSE,
   checked |-> FALSE,
   selected |-> selected,
   longClickable |-> long_clickable,
   password |-> FALSE,
   package |-> "",
   children |-> << >>]

\* VIEW_PATTERN.match(line): class{hash vis other l,t-r,b [#id name] [text]}
MatchesViewPattern(line) ==
  /\ line.braces
  /\ IsClassName(line.head)
  /\ Len(line.fields) >= 4
  /\ IsHex(line.fields[1])
  /\ AllIn(line.fields[2], VisChars)
  /\ AllIn(line.fields[3], OtherChars)
  /\ Len(line.fields[4]) = Len(BOUNDS_PATTERN)
  /\ Match(BOUNDS_PATTERN, line.fields[4])

\* VIEW_SIMPLE_PATTERN.match(line): class{content}
MatchesSimplePattern(line) ==
  /\ line.braces
  /\ IsClassName(line.head)
  /\ line.fields # << >>

\* group 10 of VIEW_PATTERN is set
HasResourceId(fields) ==
  /\ Len(fields) >= 6
  /\ IsResourceRef(fields[5])
  /\ IsResourceName(fields[6])

\* DumpsysParser._create_node_from_match
create_node_from_match(line) ==
  LET vis_flags == line.fields[2]
      other_flags == line.fields[3]
      resource_id == IF HasResourceId(line.fields) THEN line.fields[6][1].sym ELSE ""
      text == IF HasResourceId(line.fields)
              THEN WordOf(SubSeq(line.fields, 7, Len(line.fields)))
              ELSE WordOf(SubSeq(line.fields, 5, Len(line.fields)))
  IN  Some(ViewDict(line.head, text, resource_id, BoundsAt(line.fields[4], 1),
                    In("C", other_flags),
                    In("P", other_flags) \/ In("F", other_flags),
                    In("F", vis_flags) \/ In("F", other_flags),
                    In("E", vis_flags),
                    In("S", vis_flags),
                    In("L", other_flags)))

\* RESOURCE_ID_PATTERN.search(content)
SearchResourceId(fields) ==
  LET hits == { k \in 1..(Len(fields) - 1) :
                  IsResourceRef(fields[k]) /\ IsResourceName(fields[k + 1]) }
  IN  IF hits = {} THEN "" ELSE fields[Min(hits) + 1][1].sym

\* DumpsysParser._create_node_from_simple_match
create_node_from_simple_match(line) ==
  LET k == SearchBounds(line.fields)
  IN  IF k = 0
      THEN Nothing
      ELSE Some(ViewDict(line.head, "", SearchResourceId(line.fields),
                         BoundsAt(line.fields[k], Search(BOUNDS_PATTERN, line.fields[k])),
                         AfterSpaceOrDot("C", line.fields),
                         FALSE,
                         AfterSpaceOrDot("F", line.fields),
                         AfterSpaceOrDot("E", line.fields),
                         FALSE,
                         FALSE))

\* "DecorView@" in line or line.strip().startswith("DecorView")
DecorHeads == { "DecorView@1" }
IsDecorView(line) == line.head \in DecorHeads

\* DumpsysParser._parse_decor_view
parse_decor_view(line) ==
  LET k == SearchBounds(line.fields)
      bounds == IF k = 0
                THEN Rect(0, 0, DefaultWidth, DefaultHeight)
                ELSE BoundsAt(line.fields[k], Search(BOUNDS_PATTERN, line.fields[k]))
  IN  Some(ViewDict("DecorView", "", "", bounds, FALSE, FALSE, FALSE, TRUE, FALSE, FALSE))

\* a line parser that tries the simple pattern only
ParseViewLineSimpleOnly(line) ==
  IF IsBlank(line) THEN Nothing
  ELSE IF IsDecorView(line) THEN parse_decor_view(line)
  ELSE IF MatchesSimplePattern(line) THEN create_node_from_simple_match(line)
  ELSE Nothing

\* DumpsysParser._parse_view_line
parse_view_line(line) ==
  IF IsBlank(line) THEN Nothing
  ELSE IF IsDecorView(line) THEN parse_decor_view(line)
  ELSE IF MatchesViewPattern(line) THEN create_node_from_match(line)
  ELSE IF MatchesSimplePattern(line) THEN create_node_from_simple_match(line)
  ELSE Nothing

\* dumpsys_output.find("View Hierarchy:"): the line that holds the marker,
\* 0 for -1.  The TASK and ACTIVITY markers of lines 327-331 lead to the
\* same search and never set start_idx by themselves.
VIEW_HIERARCHY == "View Hierarchy:"
FindMarker(lines) ==
  LET hits == { i \in 1..Len(lines) : lines[i].head = VIEW_HIERARCHY }
  IN  IF hits = {} THEN 0 ELSE Min(hits)

\* the line starts one of end_markers: a newline followed by "  Looper ",
\* "  mHandler", "  ViewRoot", "TASK ", "ACTIVITY " or another newline
EndHeads == { "Looper ", "mHandler", "ViewRoot" }
TopHeads == { "TASK ", "ACTIVITY " }
IsEndMarker(lines, j) ==
  \/ lines[j].indent = 2 /\ lines[j].head \in EndHeads
  \/ lines[j].indent = 0 /\ lines[j].head \in TopHeads
  \/ lines[j].indent = 0 /\ IsBlank(lines[j]) /\ j < Len(lines)

\* str.strip of a text of several lines: the blank lines at both ends go,
\* and so do the leading spaces of the first line that is left
strip_lines(lines) ==
  LET solid == { i \in 1..Len(lines) : ~IsBlank(lines[i]) }
  IN  IF solid = {}
      THEN << >>
      ELSE LET kept == SubSeq(lines, Min(solid), Max(solid))
           IN  [kept EXCEPT ![1].indent = 0]

\* what follows the marker up to the first end marker: the rest of the
\* marker's line, which is empty, and the lines after it
SectionLines(lines, start) ==
  LET ends == { j \in (start + 1)..Len(lines) : IsEndMarker(lines, j) }
      last == IF ends = {} THEN Len(lines) ELSE Min(ends) - 1
  IN  << BlankLine(0) >> \o SubSeq(lines, start + 1, last)

\* DumpsysParser._extract_view_hierarchy; None and the empty text are both
\* the empty sequence, which line 274 treats alike
text_extract_view_hierarchy(dumpsys_output) ==
  LET start == FindMarker(dumpsys_output)
  IN  IF start = 0
      THEN IF \E i \in 1..Len(dumpsys_output) : SearchBounds(dumpsys_output[i].fields) # 0
           THEN dumpsys_output
           ELSE << >>
      ELSE strip_lines(SectionLines(dumpsys_output, start))

\* while stack and stack[-1][0] >= indent: stack.pop()
RECURSIVE PopDeeper(_, _)
PopDeeper(stack, indent) ==
  IF stack # << >> /\ stack[Len(stack)].indent >= indent
  THEN PopDeeper(SubSeq(stack, 1, Len(stack) - 1), indent)
  ELSE stack

\* A stack entry is the indentation of a node and the place of the node in
\* the forest root_nodes: the positions to follow from the roots down
RECURSIVE ChildrenAt(_, _), AppendAt(_, _, _)
ChildrenAt(nodes, path) ==
  IF path = << >> THEN nodes ELSE ChildrenAt(nodes[Head(path)].children, Tail(path))

\* parent["children"].append(node), root_nodes.append(node) for the empty path
AppendAt(nodes, path, node) ==
  IF path = << >>
  THEN Append(nodes, node)
  ELSE [nodes EXCEPT ![Head(path)].children = AppendAt(@, Tail(path), node)]

\* the loop of DumpsysParser._parse_lines, lines 375-398
RECURSIVE ParseLoop(_, _, _)
ParseLoop(lines, stack, root_nodes) ==
  IF lines = << >>
  THEN root_nodes
  ELSE LET line == Head(lines)
           node == parse_view_line(line)
       IN  IF IsBlank(line) \/ node = Nothing
           THEN ParseLoop(Tail(lines), stack, root_nodes)
           ELSE LET popped == PopDeeper(stack, line.indent)
                    parent == IF popped = << >> THEN << >> ELSE popped[Len(popped)].path
                    place == Len(ChildrenAt(root_nodes, parent)) + 1
                IN  ParseLoop(Tail(lines),
                              Append(popped, [indent |-> line.indent,
                                              path |-> Append(parent, place)]),
                              AppendAt(root_nodes, parent, node[1]))

\* DumpsysParser._parse_lines
parse_lines(lines) == ParseLoop(lines, << >>, << >>)

\* DumpsysParser._calculate_bounds
calculate_bounds(nodes) ==
  IF nodes = << >>
  THEN Rect(0, 0, DefaultWidth, DefaultHeight)
  ELSE Rect(Min({ n.boundsInScreen.left : n \in Range(nodes) }),
            Min({ n.boundsInScreen.top : n \in Range(nodes) }),
            Max({ n.boundsInScreen.right : n \in Range(nodes) }),
            Max({ n.boundsInScreen.bottom : n \in Range(nodes) }))

\* parse without the test of lines 282-284
ParseWithoutRootsTest(dumpsys_output) ==
  LET view_hierarchy == text_extract_view_hierarchy(dumpsys_output)
      root_nodes == parse_lines(view_hierarchy)
  IN  IF view_hierarchy = << >>
      THEN ParseReturns(Nothing)
      ELSE IF Len(root_nodes) = 1
      THEN ParseReturns(Some(root_nodes[1]))
      ELSE ParseReturns(Some(VirtualRoot(calculate_bounds(root_nodes), root_nodes)))

\* DumpsysParser.parse; nothing in the try block raises on a text, and what
\* would is caught by line 303
text_parse(dumpsys_output) ==
  LET view_hierarchy == text_extract_view_hierarchy(dumpsys_output)
      root_nodes == parse_lines(view_hierarchy)
  IN  IF view_hierarchy = << >>
      THEN ParseReturns(Nothing)
      ELSE IF root_nodes = << >>
      THEN ParseReturns(Nothing)
      ELSE IF Len(root_nodes) = 1
      THEN ParseReturns(Some(root_nodes[1]))
      ELSE ParseReturns(Some(VirtualRoot(calculate_bounds(root_nodes), root_nodes)))

\* ------------------------------------------------------ text dumps given
MaxLines == 3
Indents == { 0, 2, 4 }

Hash == << Sym("a"), Digits(<< 1 >>) >>
TB1 == TextBounds(<< 0 >>, << 0 >>, << 5, 0 >>, << 5, 0 >>)
TB2 == TextBounds(<< 5, 0 >>, << 5, 0 >>, << 1, 0, 0 >>, << 1, 0, 0 >>)
TB3 == TextBounds(<< 0, 1, 0 >>, << 2, 0 >>, << 3, 0 >>, << 0, 4, 0 >>)
TBInverted == TextBounds(<< 5, 0 >>, << 5, 0 >>, << 0 >>, << 0 >>)

\* "class{a1 V.E. .C. l,t-r,b}", which VIEW_PATTERN matches
ViewLine(indent, class, bounds) ==
  Line(indent, class, TRUE,
       << Hash, Chars(<< "V", ".", "E", "." >>), Chars(<< ".", "C", "." >>), bounds >>)

\* "class{a1 V.E. l,t-r,b}", which only VIEW_SIMPLE_PATTERN matches
LooseLine(indent, class, bounds) ==
  Line(indent, class, TRUE, << Hash, Chars(<< "V", ".", "E", "." >>), bounds >>)

BasicLines ==
  UNION { { ViewLine(i, "A", TB1), ViewLine(i, "B", TB2), LooseLine(i, "C", TB3),
            TextLine(i, "mCurrentConfig") } : i \in Indents }

SpecialLines ==
  { ViewLine(2, "D", TBInverted),
    LooseLine(2, "D", TBInverted),
    Line(2, "D", TRUE, << Hash, Chars(<< "V", ".", "E", "." >>) >>),
    Line(2, "D", TRUE, << Hash, Chars(<< "G", "F", "S" >>), Chars(<< "L", "P" >>), TB3,
                          << Sym("#"), Digits(<< 7 >>), Sym("f") >>,
                          << Sym("android:id/content") >>, << Sym("Radio") >> >>),
    Line(2, "D", TRUE, << Hash, Chars(<< ".", "F" >>), Chars(<< "C" >>),
                          << Sym("x"), Digits(<< 1 >>), Sym(","), Digits(<< 2 >>), Sym("-"),
                             Digits(<< 3 >>), Sym(","), Digits(<< 4 >>) >> >>),
    TextLine(2, "DecorView@1"),
    Line(0, "DecorView@1", TRUE, << TB2 >>),
    BlankLine(0),
    BlankLine(2),
    TextLine(2, "Looper "),
    TextLine(3, "mHandler"),
    TextLine(0, "TASK "),
    Line(2, "mBounds", FALSE, << TB1 >>) }

AroundLines == { ViewLine(2, "A", TB1), ViewLine(4, "B", TB2) }

TextBodies ==
  SeqsUpTo(BasicLines, MaxLines)
    \cup { a \o << s >> \o b : a \in SeqsUpTo(AroundLines, 1), s \in SpecialLines,
                               b \in SeqsUpTo(AroundLines, 1) }
    \cup { << Line(2, "mBounds", FALSE, << TB1 >>), TextLine(2, "DecorView@1") >> }

Preambles ==
  { << >>,
    << TextLine(0, VIEW_HIERARCHY) >>,
    << TextLine(0, "TASK "), TextLine(2, "ACTIVITY "), TextLine(4, VIEW_HIERARCHY) >> }

TextDocuments == { pre \o body : pre \in Preambles, body \in TextBodies }

TextDump(text) == [parser |-> "dumpsys", text |-> text]

\* --------------------------------------------------------------- action
\* DumpsysParser().parse(dump) on a dump not parsed yet
DumpsysParserParse ==
  /\ dump.parser = "dumpsys"
  /\ parsed = NotParsed
  /\ parsed' = text_parse(dump.text)
  /\ UNCHANGED << dump, acqVars, inflight, tapVars, extraVars >>

TextParsed == dump.parser = "dumpsys" /\ parsed # NotParsed

\* "l,t-r,b" stands in field k of the line from token i on
BoundsTextAt(line, k, i) ==
  /\ i + 6 <= Len(line.fields[k])
  /\ \A d \in { 0, 2, 4, 6 } : line.fields[k][i + d].sym = "digits"
  /\ line.fields[k][i + 1].sym = "," /\ line.fields[k][i + 3].sym = "-"
  /\ line.fields[k][i + 5].sym = ","
HasBoundsText(line) ==
  \E k \in 1..Len(line.fields) : \E i \in 1..Len(line.fields[k]) : BoundsTextAt(line, k, i)

\* the line reads "class{... l,t-r,b ...}": an element of the hierarchy
IsElementLine(line) == line.braces /\ line.head \in ClassNames /\ HasBoundsText(line)

\* the bounds an element line is written with
WrittenBounds(line) ==
  LET at == CHOOSE at \in (1..Len(line.fields)) \X (1..8) : BoundsTextAt(line, at[1], at[2])
      f == line.fields[at[1]]
      i == at[2]
  IN  Rect(DecimalValue(f[i].digits), DecimalValue(f[i + 2].digits),
           DecimalValue(f[i + 4].digits), DecimalValue(f[i + 6].digits))

\* the dump is an optional introduction and then two element lines of the
\* same indentation with the bounds {0,0,50,50} and {50,50,100,100}
TwoRootLevelElements(text) ==
  /\ Len(text) >= 2
  /\ SubSeq(text, 1, Len(text) - 2) \in Preambles
  /\ LET a == text[Len(text) - 1]
         b == text[Len(text)]
     IN  /\ IsElementLine(a) /\ IsElementLine(b)
         /\ a.indent = b.indent
         /\ Len(a.fields) = 4 /\ Len(b.fields) = 4
         /\ WrittenBounds(a) = Rect(0, 0, 50, 50)
         /\ WrittenBounds(b) = Rect(50, 50, 100, 100)

\* C15: a text dump of two root-level elements with the bounds {0,0,50,50}
\* and {50,50,100,100} is parsed into a synthetic container with the bounds
\* {0,0,100,100} and both elements as its children, whatever the common
\* indentation of the two lines is.
C15_TwoRootsUnderContainer ==
  (TextParsed /\ TwoRootLevelElements(dump.text)) =>
    /\ parsed.status = "returned"
    /\ Len(parsed.value) = 1
    /\ parsed.value[1].className = "VirtualRoot"
    /\ parsed.value[1].boundsInScreen = Rect(0, 0, 100, 100)
    /\ Len(parsed.value[1].children) = 2
    /\ parsed.value[1].children[1].boundsInScreen = Rect(0, 0, 50, 50)
    /\ parsed.value[1].children[2].boundsInScreen = Rect(50, 50, 100, 100)
    /\ \A i \in 1..2 : parsed.value[1].children[i].children = << >>

\* a valid text dump: an optional introduction, then at least one element
\* line and nothing but element lines
ValidTextDump(text) ==
  \E pre \in Preambles :
    /\ Len(pre) < Len(text)
    /\ SubSeq(text, 1, Len(pre)) = pre
    /\ \A i \in (Len(pre) + 1)..Len(text) : IsElementLine(text[i])
ElementLines(text) == SelectSeq(text, IsElementLine)

\* the nearest preceding line of smaller indentation, 0 if there is none
NearestShallower(lines, i) ==
  LET before == { j \in 1..(i - 1) : lines[j].indent < lines[i].indent }
  IN  IF before = {} THEN 0 ELSE Max(before)

\* the nodes of a forest in pre-order, each as the position of its parent
\* in that order (0 for a root); done nodes are listed before the forest
RECURSIVE ParentsOf(_, _, _)
ParentsOf(nodes, parent, done) ==
  IF nodes = << >>
  THEN << >>
  ELSE LET below == ParentsOf(Head(nodes).children, done + 1, done + 1)
       IN  << parent >> \o below \o ParentsOf(Tail(nodes), parent, done + 1 + Len(below))

\* the roots of a result: the children of a VirtualRoot, or the one root
RootsOf(tree) == IF tree.className = "VirtualRoot" THEN tree.children ELSE << tree >>

\* C16: for every valid text dump indentation alone determines nesting: an
\* element line of indentation k becomes a child of the nearest preceding
\* element line of indentation below k (a root if there is none), so two
\* consecutive lines of equal indentation are siblings, the first line of
\* the section included.
C16_IndentationDeterminesNesting ==
  (TextParsed /\ ValidTextDump(dump.text)) =>
    /\ Len(parsed.value) = 1
    /\ LET lines == ElementLines(dump.text)
       IN  ParentsOf(RootsOf(parsed.value[1]), 0, 0) =
             [i \in 1..Len(lines) |-> NearestShallower(lines, i)]

\* every node of the forest has left <= right and top <= bottom
RECURSIVE BoundsOrdered(_)
BoundsOrdered(nodes) ==
  \A i \in 1..Len(nodes) :
    /\ nodes[i].boundsInScreen.left <= nodes[i].boundsInScreen.right
    /\ nodes[i].boundsInScreen.top <= nodes[i].boundsInScreen.bottom
    /\ BoundsOrdered(nodes[i].children)

\* C17: every node of every tree either parser returns has left <= right
\* and top <= bottom, whatever the dump is.
C17_BoundsNeverInverted ==
  (parsed # NotParsed /\ parsed.status = "returned") => BoundsOrdered(parsed.value)

\* the line is one the parser makes a node of: an element line, or the
\* line of the DecorView
IsNodeLine(line) == IsElementLine(line) \/ line.head = "DecorView@1"

\* a node line stands in the section: after the marker and before the first
\* end marker, or anywhere in a text without marker that holds bounds text
NodeLineInSection(text) ==
  LET markers == { i \in 1..Len(text) : text[i].head = "View Hierarchy:" }
  IN  IF markers = {}
      THEN /\ \E i \in 1..Len(text) : HasBoundsText(text[i])
           /\ \E i \in 1..Len(text) : IsNodeLine(text[i])
      ELSE \E i \in (Min(markers) + 1)..Len(text) :
             /\ IsNodeLine(text[i])
             /\ \A j \in (Min(markers) + 1)..i : ~IsEndMarker(text, j)

\* C19: DumpsysParser.parse never raises; it returns None when no section
\* can be extracted or no line of the section parses to a node, and a root
\* otherwise.
C19_NoneOrRoot ==
  TextParsed =>
    /\ parsed.status = "returned"
    /\ Len(parsed.value) <= 1
    /\ (parsed.value # Nothing) <=> NodeLineInSection(dump.text)

C19_Witness ==
  /\ TextParsed
  /\ dump.text = << TextLine(0, "View Hierarchy:"), TextLine(2, "mCurrentConfig"),
                    TextLine(4, "mCurrentConfig") >>
  /\ parsed = ParseReturns(Nothing)

\* the lines of the section: after the marker and before the first end
\* marker, or the whole of a text without marker that holds bounds text
SectionOfDump(text) ==
  LET markers == { i \in 1..Len(text) : text[i].head = "View Hierarchy:" }
      ends == { j \in (Min(markers) + 1)..Len(text) : IsEndMarker(text, j) }
  IN  IF markers = {}
      THEN IF \E i \in 1..Len(text) : HasBoundsText(text[i]) THEN text ELSE << >>
      ELSE SubSeq(text, Min(markers) + 1, IF ends = {} THEN Len(text) ELSE Min(ends) - 1)

\* the line has the five fields of the strict pattern: hash, two flag
\* clusters and the bounds as its first four words
IsStrictLine(line) ==
  /\ IsElementLine(line)
  /\ Len(line.fields) >= 4
  /\ \A i \in 1..Len(line.fields[2]) : line.fields[2][i].sym \in VisChars
  /\ \A i \in 1..Len(line.fields[3]) : line.fields[3][i].sym \in OtherChars
  /\ Len(line.fields[4]) = 7
  /\ BoundsTextAt(line, 4, 1)

\* the nodes of a forest, a node before its children
RECURSIVE NodesInOrder(_)
NodesInOrder(nodes) ==
  IF nodes = << >>
  THEN << >>
  ELSE << Head(nodes) >> \o NodesInOrder(Head(nodes).children) \o NodesInOrder(Tail(nodes))

\* the nodes made of lines: those of the returned tree but its container
ParsedNodes ==
  IF parsed.value = Nothing THEN << >>
  ELSE IF parsed.value[1].className = "VirtualRoot" THEN NodesInOrder(parsed.value[1].children)
  ELSE NodesInOrder(parsed.value)

\* the lines of the section that are to give a node
KeptLines == SelectSeq(SectionOfDump(dump.text), IsNodeLine)

\* a line that gives no node: it matches neither pattern, or only the loose
\* one and has no bounds text in its braces
IsDroppedLine(line) == ~IsBlank(line) /\ ~IsNodeLine(line)

\* C28: a line that matches the strict pattern is decoded by it, and a line
\* is decoded by the loose pattern only when the strict one does not match;
\* a line that matches neither, or only the loose one without bounds text
\* in its braces, gives no node and does not end the parse: every line of
\* the section that is an element gives its node, in order, whatever was
\* dropped before it.
C28_StrictFirstAndDropped ==
  TextParsed =>
    /\ parsed.status = "returned"
    /\ Len(ParsedNodes) = Len(KeptLines)
    /\ \A i \in 1..Len(KeptLines) :
         LET line == KeptLines[i]
             node == ParsedNodes[i]
         IN  IF line.head = "DecorView@1"
             THEN node.className = "DecorView"
             ELSE /\ node.className = line.head
                  /\ node.boundsInScreen = WrittenBounds(line)
                  /\ node.longClickable =
                       (IsStrictLine(line) /\ \E k \in 1..Len(line.fields[3]) : line.fields[3][k].sym = "L")
                  /\ node.selected =
                       (IsStrictLine(line) /\ \E k \in 1..Len(line.fields[2]) : line.fields[2][k].sym = "S")
                  /\ ~IsStrictLine(line) => node.text = ""

\* a dropped line between two elements, the second of which is in the tree
C28_Witness ==
  /\ TextParsed
  /\ Len(dump.text) = 4
  /\ dump.text[1].head = "View Hierarchy:"
  /\ IsStrictLine(dump.text[2])
  /\ IsDroppedLine(dump.text[3]) /\ dump.text[3].braces
  /\ IsStrictLine(dump.text[4])
  /\ Len(ParsedNodes) = 2
  /\ ParsedNodes[2].className = dump.text[4].head

\* ------------------------------------------- the dicts of _parse_lines
\* _parse_lines with its dicts as objects: each call of _parse_view_line
\* that gives a node makes a new dict, named here by the position of its
\* line; `children` is the list each dict holds, `roots` is root_nodes and
\* `made` lists the dicts in the order they were made
NoRefs(lines) ==
  [roots |-> << >>, children |-> [i \in 1..Len(lines) |-> << >>], made |-> << >>]

\* the node is appended to the list of its parent and to root_nodes as well
AttachAlsoToRoots(refs, popped, id) ==
  IF popped # << >>
  THEN [refs EXCEPT !.children[popped[Len(popped)].id] = Append(@, id), !.roots = Append(@, id)]
  ELSE [refs EXCEPT !.roots = Append(@, id)]

\* lines 387-393: parent["children"].append(node) or root_nodes.append(node)
Attach(refs, popped, id) ==
  IF popped # << >>
  THEN [refs EXCEPT !.children[popped[Len(popped)].id] = Append(@, id)]
  ELSE [refs EXCEPT !.roots = Append(@, id)]

\* the loop of lines 375-398 over the objects; a stack entry is the
\* indentation of a node and the node
RECURSIVE RefLoop(_, _, _, _)
RefLoop(lines, i, stack, refs) ==
  IF i > Len(lines)
  THEN refs
  ELSE IF IsBlank(lines[i]) \/ parse_view_line(lines[i]) = Nothing
  THEN RefLoop(lines, i + 1, stack, refs)
  ELSE LET popped == PopDeeper(stack, lines[i].indent)
       IN  RefLoop(lines, i + 1, Append(popped, [indent |-> lines[i].indent, id |-> i]),
                   Attach([refs EXCEPT !.made = Append(@, i)], popped, i))

parse_lines_refs(lines) == RefLoop(lines, 1, << >>, NoRefs(lines))

\* the value of a dict: its fields, and the values of the dicts of its list
RECURSIVE ValueOf(_, _, _)
ValueOf(lines, refs, id) ==
  [parse_view_line(lines[id])[1] EXCEPT
     !.children = [k \in 1..Len(refs.children[id]) |-> ValueOf(lines, refs, refs.children[id][k])]]

\* the dicts met going through a list, each before the dicts of its own list
RECURSIVE PreOrder(_, _)
PreOrder(refs, ids) ==
  IF ids = << >>
  THEN << >>
  ELSE << Head(ids) >> \o PreOrder(refs, refs.children[Head(ids)]) \o PreOrder(refs, Tail(ids))

\* how often a dict is an item of a list
CountIn(ids, id) == Cardinality({ k \in 1..Len(ids) : ids[k] = id })

\* the dicts whose list holds the dict
ParentsIn(refs, id) == { p \in DOMAIN refs.children : CountIn(refs.children[p], id) > 0 }

\* the forest that parse returned: the roots, without the container
ParsedForest == IF parsed.value = Nothing THEN << >> ELSE RootsOf(parsed.value[1])

\* C31: every line that DumpsysParser parses to a node is exactly once in
\* the returned forest, no node has more than one parent, and going through
\* the result, a node before its children and the children in list order,
\* meets the nodes in the order of their lines.
C31_PreOrderIsLineOrder ==
  TextParsed =>
    LET lines == text_extract_view_hierarchy(dump.text)
        refs == parse_lines_refs(lines)
        reached == PreOrder(refs, refs.roots)
    IN  /\ ParsedForest = [k \in 1..Len(refs.roots) |-> ValueOf(lines, refs, refs.roots[k])]
        /\ \A id \in Range(refs.made) :
             /\ CountIn(reached, id) = 1
             /\ Cardinality(ParentsIn(refs, id)) + CountIn(refs.roots, id) = 1
             /\ \A p \in ParentsIn(refs, id) : CountIn(refs.children[p], id) = 1
        /\ reached = refs.made
        /\ \A k \in 1..(Len(reached) - 1) : reached[k] < reached[k + 1]

\* three lines give a root and its two children: the second child is
\* attached after the first was popped from the stack
C31_Witness ==
  /\ TextParsed
  /\ LET lines == text_extract_view_hierarchy(dump.text)
         refs == parse_lines_refs(lines)
     IN  /\ Len(refs.made) = 3
         /\ Len(refs.roots) = 1
         /\ \E id \in Range(refs.made) : Len(refs.children[id]) = 2
  /\ parsed.value # Nothing

\* the fields of the canonical node, under the names the parsers give them
CanonicalFields ==
  { "className", "text", "resourceId", "contentDescription", "hint", "boundsInScreen",
    "package", "children" } \cup FlagKeys

\* the node and the nodes below it carry every field
RECURSIVE CarriesAllFields(_)
CarriesAllFields(node) ==
  /\ CanonicalFields \subseteq DOMAIN node
  /\ \A i \in 1..Len(node.children) : CarriesAllFields(node.children[i])

\* C34: every node of a tree that UIAutomatorParser.parse or
\* DumpsysParser.parse returned, a VirtualRoot container included, carries
\* the whole canonical field set: class name, text, resource id, content
\* description, hint, bounds, package, children and the ten flags.
C34_EveryNodeCarriesAllFields ==
  (parsed # NotParsed /\ parsed.value # Nothing) => CarriesAllFields(parsed.value[1])

\* ------------------------------------------------------- specification
Dumps ==
  { XmlDump(text) : text \in XmlDocuments } \cup { TextDump(text) : text \in TextDocuments }

ParserInit ==
  /\ automotive_mode = TRUE
  /\ Constructed
  /\ NoCallers
  /\ TapIdle
  /\ ExtraIdle
  /\ dump \in Dumps
  /\ parsed = NotParsed

ParserNext ==
  \/ UIAutomatorParserParse
  \/ DumpsysParserParse

ParserSpec == ParserInit /\ [][ParserNext]_vars

\* ========================================================= tap resolution
\* AdbTools.tap_by_index and AdbTools.tap_on_index on the element cache a
\* get_state left.  A cached element has an optional index, an optional
\* bounds string and children; a bounds string is the sequence of the
\* fields that "," separates, each field a sequence of tokens.
CachedElement(index, bounds, children) ==
  [index |-> index, bounds |-> bounds, children |-> children]

\* int(field): the field is a numeral, or "-" and a numeral
IsIntLiteral(field) ==
  \/ Len(field) = 1 /\ field[1].sym = "digits"
  \/ Len(field) = 2 /\ field[1].sym = "-" /\ field[2].sym = "digits"
IntOf(field) ==
  IF Len(field) = 1 THEN ToInt(field[1].digits) ELSE 0 - ToInt(field[2].digits)

\* a conversion that reads 0 for a field that is no integer
MapIntOrZero(bounds_str) ==
  Some([i \in DOMAIN bounds_str |->
          IF IsIntLiteral(bounds_str[i]) THEN IntOf(bounds_str[i]) ELSE 0])

\* map(int, bounds_str.split(",")): the integers, Nothing for ValueError
map_int(bounds_str) ==
  IF \A i \in DOMAIN bounds_str : IsIntLiteral(bounds_str[i])
  THEN Some([i \in DOMAIN bounds_str |-> IntOf(bounds_str[i])])
  ELSE Nothing

\* find_element_by_index: depth first, an element before its children
RECURSIVE find_element_by_index(_, _)
find_element_by_index(elements, target_index) ==
  IF elements = << >>
  THEN Nothing
  ELSE IF Head(elements).index = Some(target_index)
  THEN Some(Head(elements))
  ELSE LET result == find_element_by_index(Head(elements).children, target_index)
       IN  IF result # Nothing
           THEN result
           ELSE find_element_by_index(Tail(elements), target_index)

\* collect_all_elements
RECURSIVE collect_all_elements(_)
collect_all_elements(elements) ==
  IF elements = << >>
  THEN << >>
  ELSE << Head(elements) >> \o collect_all_elements(Head(elements).children)
         \o collect_all_elements(Tail(elements))

\* what a tap call comes to: the string it returns, the click it issued and
\* the blockers it handed to find_clear_point
Tapped(point) == [status |-> "returned", text |-> "Tapped element with index", click |-> Some(point), blockers |-> Nothing]
TapError(message) == [status |-> "returned", text |-> message, click |-> Nothing, blockers |-> Nothing]

\* tap_by_index with _extract_element_coordinates_by_index, lines 251-337
tap_by_index(cache, index) ==
  LET element == find_element_by_index(cache, index)
  IN  IF cache = << >>
      THEN TapError("Error: No UI elements cached. Call get_state first.")
      ELSE IF element = Nothing
      THEN TapError("Error: No element found with index")
      ELSE IF element[1].bounds = Nothing
      THEN TapError("Error: Element has no bounds and cannot be tapped")
      ELSE LET ints == map_int(element[1].bounds[1])
           IN  IF ints = Nothing \/ Len(element[1].bounds[1]) # 4
               THEN TapError("Error: Invalid bounds format for element with index")
               ELSE Tapped(<< (ints[1][1] + ints[1][3]) \div 2, (ints[1][2] + ints[1][4]) \div 2 >>)

\* helpers.geometry.rects_overlap: the rectangles << l, t, r, b >> share an
\* area; rectangles that only touch do not
rects_overlap(a, b) ==
  /\ a[1] < b[3] /\ b[1] < a[3]
  /\ a[2] < b[4] /\ b[2] < a[4]

\* the rectangle covers the point
Covers(rect, point) ==
  /\ rect[1] <= point[1] /\ point[1] <= rect[3]
  /\ rect[2] <= point[2] /\ point[2] <= rect[4]

Center(rect) == << (rect[1] + rect[3]) \div 2, (rect[2] + rect[4]) \div 2 >>

\* the points strictly inside the target that no blocker covers
ClearPoints(target, blockers) ==
  { point \in ((target[1] + 1)..(target[3] - 1)) \X ((target[2] + 1)..(target[4] - 1)) :
      \A i \in 1..Len(blockers) : ~Covers(blockers[i], point) }

SquaredDistance(p, q) == (p[1] - q[1]) * (p[1] - q[1]) + (p[2] - q[2]) * (p[2] - q[2])

\* helpers.geometry.find_clear_point: the results it may give.  It gives the
\* center when no blocker covers it, nothing when no point is clear, and
\* otherwise one of the clear points nearest to the center; which of these
\* is not laid down
find_clear_point(target, blockers) ==
  LET center == Center(target)
      clear == ClearPoints(target, blockers)
  IN  IF \A i \in 1..Len(blockers) : ~Covers(blockers[i], center)
      THEN { Some(center) }
      ELSE IF clear = {}
      THEN { Nothing }
      ELSE { Some(p) : p \in { q \in clear : \A o \in clear :
                                  SquaredDistance(q, center) <= SquaredDistance(o, center) } }

\* a resolver that reads every element with bounds as a blocker
AllWithBounds(cache, index) ==
  SelectSeq(collect_all_elements(cache), LAMBDA el : el.bounds # Nothing)

\* a resolver that passes over the higher elements whose bounds do not read
\* as integers
WellFormedCandidates(cache, index) ==
  SelectSeq(collect_all_elements(cache),
            LAMBDA el : /\ el.index # Nothing /\ el.index[1] > index /\ el.bounds # Nothing
                        /\ map_int(el.bounds[1]) # Nothing)

\* the elements tap_on_index reads the bounds of as blockers, lines 411-415
BlockerCandidates(cache, index) ==
  SelectSeq(collect_all_elements(cache),
            LAMBDA el : el.index # Nothing /\ el.index[1] > index /\ el.bounds # Nothing)

\* a resolver that takes no element for a blocker
BlockersIgnored(target_bounds, candidates) == << >>

\* blockers of lines 410-418, once every candidate's bounds are integers
BlockersOf(target_bounds, candidates) ==
  LET rects == [i \in DOMAIN candidates |-> map_int(candidates[i].bounds[1])[1]]
  IN  SelectSeq(rects, LAMBDA el_bounds : rects_overlap(target_bounds, el_bounds))

\* a tap that clicks the corner of the screen when there is no clear point
TapAtOriginWhenObscured(point) ==
  IF point = Nothing THEN Tapped(<< 0, 0 >>) ELSE Tapped(point[1])

\* lines 420-425: no point is an error, a point is clicked
tap_at(point) ==
  IF point = Nothing
  THEN TapError("Error: Element is fully obscured by overlapping elements")
  ELSE Tapped(point[1])

\* tap_on_index, lines 377-459: the results the call may come to
tap_on_index(cache, index) ==
  LET element == find_element_by_index(cache, index)
  IN  IF cache = << >>
      THEN { TapError("Error: No UI elements cached. Call get_state first.") }
      ELSE IF element = Nothing
      THEN { TapError("Error: No element found with index") }
      ELSE IF element[1].bounds = Nothing
      THEN { TapError("Error: Element has no bounds") }
      ELSE LET target_bounds == map_int(element[1].bounds[1])
               candidates == BlockerCandidates(cache, index)
           IN  IF target_bounds = Nothing
               THEN { TapError("Error: invalid literal for int() with base 10") }
               ELSE IF \E i \in 1..Len(candidates) : map_int(candidates[i].bounds[1]) = Nothing
               THEN { TapError("Error: invalid literal for int() with base 10") }
               ELSE LET blockers == BlockersOf(target_bounds[1], candidates)
                    IN  { [tap_at(point) EXCEPT !.blockers = Some(blockers)] :
                            point \in find_clear_point(target_bounds[1], blockers) }

\* ---------------------------------------------------------- caches given
MaxCached == 2

Numeral(ds) == << Digits(ds) >>
BoundsString(l, t, r, b) == << Numeral(l), Numeral(t), Numeral(r), Numeral(b) >>
\* "0,0,100,100", "10,20,30,40" and "18,28,22,32"
R100 == BoundsString(<< 0 >>, << 0 >>, << 1, 0, 0 >>, << 1, 0, 0 >>)
RSmall == BoundsString(<< 1, 0 >>, << 2, 0 >>, << 3, 0 >>, << 4, 0 >>)
RMid == BoundsString(<< 1, 8 >>, << 2, 8 >>, << 2, 2 >>, << 3, 2 >>)
\* "10,20,thirty,40" and "10,,30,40"
BThirty == << Numeral(<< 1, 0 >>), Numeral(<< 2, 0 >>), << Sym("thirty") >>, Numeral(<< 4, 0 >>) >>
BEmptyField == << Numeral(<< 1, 0 >>), << >>, Numeral(<< 3, 0 >>), Numeral(<< 4, 0 >>) >>

CachedBounds == { Some(R100), Some(RSmall), Some(RMid), Some(BThirty), Some(BEmptyField), Nothing }

\* top-level elements with the indices 1..n in order; the first of them may
\* have one child, which carries the index n + 1, and the last of them may
\* be an element without an index
CacheOf(bounds, child, bare) ==
  [i \in DOMAIN bounds |->
     CachedElement(IF bare /\ i = Len(bounds) THEN Nothing ELSE Some(i), bounds[i],
                   IF i = 1 /\ child # << >>
                   THEN << CachedElement(Some(Len(bounds) + 1), child[1], << >>) >>
                   ELSE << >>)]

Caches ==
  { CacheOf(bounds, child, bare) :
      bounds \in SeqsUpTo(CachedBounds, MaxCached),
      child \in { << >> } \cup { << b >> : b \in CachedBounds },
      bare \in BOOLEAN }

Indices == 1..(MaxCached + 2)

\* -------------------------------------------------------------- actions
\* await tools.tap_by_index(index)
TapByIndexCall(index) ==
  /\ tap_call = NoCall
  /\ tap_call' = [method |-> "tap_by_index", index |-> index]
  /\ tap_result' = tap_by_index(clickable_elements_cache, index)
  /\ clicks' = clicks \o tap_result'.click
  /\ UNCHANGED << acqVars, parserVars, inflight, extraVars >>

\* await tools.tap_on_index(index)
TapOnIndexCall(index) ==
  /\ tap_call = NoCall
  /\ tap_call' = [method |-> "tap_on_index", index |-> index]
  /\ tap_result' \in tap_on_index(clickable_elements_cache, index)
  /\ clicks' = clicks \o tap_result'.click
  /\ UNCHANGED << acqVars, parserVars, inflight, extraVars >>

\* the default of the parameter index: the focused element is used
FocusedIndex == -1

\* AdbTools.input_text, lines 568-598, in automotive mode. The result of
\* tap_by_index is not looked at (line 571); click_raises: device.click of
\* tap_by_index raises, which its `except ValueError` lets through to the
\* `except Exception` of line 597; success: what _input_text_automotive
\* returned. `typed` holds the texts handed to the device.
input_text(cache, index, click_raises, success) ==
  LET click == IF index # FocusedIndex THEN tap_by_index(cache, index).click ELSE Nothing
  IN  IF click # Nothing /\ click_raises
      THEN [status |-> "returned", text |-> "Error sending text input", click |-> click,
            typed |-> << >>]
      ELSE [status |-> "returned",
            text |-> IF success THEN "Text input completed" ELSE "Error: Text input failed",
            click |-> click, typed |-> << "text" >>]

\* await tools.input_text("text", index)
InputTextCall(index, click_raises, success) ==
  /\ tap_call = NoCall
  /\ tap_call' = [method |-> "input_text", index |-> index]
  /\ tap_result' = input_text(clickable_elements_cache, index, click_raises, success)
  /\ clicks' = clicks \o tap_result'.click
  /\ UNCHANGED << acqVars, parserVars, inflight, extraVars >>

\* -------------------------------------------------------- specification
TapInit ==
  /\ automotive_mode = TRUE
  /\ ConstructedExceptCache
  /\ clickable_elements_cache \in Caches
  /\ ParserIdle
  /\ NoCallers
  /\ TapIdle
  /\ ExtraIdle

TapNext ==
  \/ \E index \in Indices :
       \/ TapByIndexCall(index)
       \/ TapOnIndexCall(index)
  \/ \E index \in Indices \cup { FocusedIndex }, click_raises \in BOOLEAN, success \in BOOLEAN :
       InputTextCall(index, click_raises, success)

TapSpec == TapInit /\ [][TapNext]_vars

\* the element of the cache that carries the index of the call
TargetOfCall ==
  SelectSeq(collect_all_elements(clickable_elements_cache),
            LAMBDA el : el.index = << tap_call.index >>)

\* a bounds string with a field that is not an integer
Malformed(bounds) ==
  /\ bounds # Nothing
  /\ \E i \in 1..Len(bounds[1]) : ~IsIntLiteral(bounds[1][i])

BoundsErrors ==
  { "Error: Invalid bounds format for element with index",
    "Error: invalid literal for int() with base 10" }

\* C20: a malformed bounds string on the target element makes tap_by_index
\* and tap_on_index return an explicit error about the bounds; no click is
\* issued and no coordinate is put in the place of the bounds.
C20_MalformedBoundsFailTheTap ==
  (/\ tap_call.method \in { "tap_by_index", "tap_on_index" }
   /\ TargetOfCall # << >>
   /\ Malformed(TargetOfCall[1].bounds)) =>
    /\ tap_result.status = "returned"
    /\ tap_result.text \in BoundsErrors
    /\ tap_result.click = Nothing
    /\ clicks = << >>

C20_Witness ==
  /\ tap_call.method = "tap_on_index"
  /\ TargetOfCall # << >>
  /\ TargetOfCall[1].bounds = Some(BThirty)
  /\ tap_result.text = "Error: invalid literal for int() with base 10"
  /\ clicks = << >>

\* tapping the index of the call cannot succeed: nothing is cached, no
\* element carries the index, or its bounds are missing or malformed
TapCannotSucceed ==
  \/ clickable_elements_cache = << >>
  \/ TargetOfCall = << >>
  \/ TargetOfCall[1].bounds = Nothing
  \/ Malformed(TargetOfCall[1].bounds)
  \/ Len(TargetOfCall[1].bounds[1]) # 4

\* C37: input_text called with an index other than -1 sends text to the
\* device only if tapping that index succeeded: when the tap fails it
\* returns an error and sends no text.
C37_TextOnlyAfterSuccessfulTap ==
  (tap_call.method = "input_text" /\ tap_call.index # FocusedIndex) =>
    /\ tap_result.typed # << >> => (~TapCannotSucceed /\ Len(clicks) = 1)
    /\ TapCannotSucceed =>
         /\ tap_result.typed = << >>
         /\ tap_result.text \notin { "Text input completed" }

\* the rectangle << l, t, r, b >> a well-formed bounds string stands for
RectOf(bounds) == [i \in 1..4 |-> IntOf(bounds[1][i])]

\* the cached elements above the target: those with a higher index
HigherElements ==
  SelectSeq(collect_all_elements(clickable_elements_cache),
            LAMBDA el : el.index # Nothing /\ el.index[1] > tap_call.index)

\* the call has a target whose bounds and whose higher elements' bounds read
\* as rectangles
Resolvable ==
  /\ TargetOfCall # << >>
  /\ TargetOfCall[1].bounds # Nothing
  /\ ~Malformed(TargetOfCall[1].bounds)
  /\ \A i \in 1..Len(HigherElements) : ~Malformed(HigherElements[i].bounds)

\* the rectangles of the higher elements that intersect the target
RectsAbove ==
  { RectOf(HigherElements[i].bounds) :
      i \in { j \in 1..Len(HigherElements) :
                /\ HigherElements[j].bounds # Nothing
                /\ rects_overlap(RectOf(TargetOfCall[1].bounds), RectOf(HigherElements[j].bounds)) } }

\* every point inside the target lies under a higher element
FullyObscured ==
  /\ Resolvable
  /\ LET target == RectOf(TargetOfCall[1].bounds)
     IN  \A x \in (target[1] + 1)..(target[3] - 1) : \A y \in (target[2] + 1)..(target[4] - 1) :
           \E rect \in RectsAbove :
             /\ rect[1] <= x /\ x <= rect[3]
             /\ rect[2] <= y /\ y <= rect[4]

TapErrors ==
  BoundsErrors \cup
    { "Error: No UI elements cached. Call get_state first.",
      "Error: No element found with index",
      "Error: Element has no bounds",
      "Error: Element is fully obscured by overlapping elements" }

\* C21: tap_on_index clicks at most once, and only after the target was
\* found, its bounds were read and a clear point was returned; with an
\* empty cache, an index not found, missing bounds or a fully obscured
\* target it returns an error and clicks nothing, and it reports a tap
\* only when it clicked.
C21_ClickOnlyAfterResolution ==
  tap_call.method = "tap_on_index" =>
    /\ Len(clicks) <= 1
    /\ clicks # << >> =>
         /\ Resolvable /\ ~FullyObscured
         /\ tap_result.click = << clicks[1] >>
    /\ ( \/ clickable_elements_cache = << >>
         \/ TargetOfCall = << >>
         \/ TargetOfCall[1].bounds = Nothing
         \/ FullyObscured )
         => /\ clicks = << >>
            /\ tap_result.status = "returned"
            /\ tap_result.text \in TapErrors
    /\ tap_result.text \notin TapErrors => Len(clicks) = 1

C21_Witness ==
  /\ tap_call.method = "tap_on_index"
  /\ FullyObscured
  /\ tap_result.text = "Error: Element is fully obscured by overlapping elements"
  /\ clicks = << >>

\* the rectangle covers the point, its edges included
RectCovers(rect, x, y) ==
  /\ rect[1] <= x /\ x <= rect[3]
  /\ rect[2] <= y /\ y <= rect[4]

\* C22: a point tap_on_index clicks lies inside the target's rectangle and
\* under no rectangle of a higher element that intersects the target; it is
\* the center of the target when no such rectangle covers the center, so
\* (50,50) for the target 0,0,100,100 with nothing above it; and when one
\* such rectangle covers the whole target nothing is clicked.
C22_ClickedPointIsClear ==
  (tap_call.method = "tap_on_index" /\ Resolvable) =>
    LET target == RectOf(TargetOfCall[1].bounds)
        cx == (target[1] + target[3]) \div 2
        cy == (target[2] + target[4]) \div 2
    IN  /\ clicks # << >> =>
             /\ RectCovers(target, clicks[1][1], clicks[1][2])
             /\ \A rect \in RectsAbove : ~RectCovers(rect, clicks[1][1], clicks[1][2])
             /\ (\A rect \in RectsAbove : ~RectCovers(rect, cx, cy)) => clicks[1] = << cx, cy >>
        /\ (target = << 0, 0, 100, 100 >> /\ RectsAbove = {}) => clicks = << << 50, 50 >> >>
        /\ (\E rect \in RectsAbove :
              /\ rect[1] <= target[1] /\ target[3] <= rect[3]
              /\ rect[2] <= target[2] /\ target[4] <= rect[4]) => clicks = << >>

\* a click beside the center, which a higher element covers
C22_Witness ==
  /\ tap_call.method = "tap_on_index"
  /\ Resolvable
  /\ Len(clicks) = 1
  /\ RectsAbove # {}
  /\ clicks[1] # Center(RectOf(TargetOfCall[1].bounds))

\* the rectangles have a common area
SharesArea(a, b) ==
  /\ Max({ a[1], b[1] }) < Min({ a[3], b[3] })
  /\ Max({ a[2], b[2] }) < Min({ a[4], b[4] })

\* the cached elements, at every depth, that lie above the target: an index
\* greater than the target's and a rectangle that shares area with the
\* target's
ElementsAbove ==
  SelectSeq(collect_all_elements(clickable_elements_cache),
            LAMBDA el : /\ el.index # Nothing
                        /\ el.index[1] > tap_call.index
                        /\ el.bounds # Nothing
                        /\ SharesArea(RectOf(el.bounds), RectOf(TargetOfCall[1].bounds)))

\* C26: the blockers tap_on_index hands to find_clear_point are exactly the
\* rectangles of the cached elements, at any depth, with an index greater
\* than the target's and a rectangle that intersects the target's; an
\* element with a lower or equal index, without index or without bounds
\* adds no blocker.
C26_BlockersAreTheElementsAbove ==
  (tap_call.method = "tap_on_index" /\ tap_result.blockers # Nothing) =>
    /\ Resolvable
    /\ tap_result.blockers[1] = [i \in 1..Len(ElementsAbove) |-> RectOf(ElementsAbove[i].bounds)]

\* a nested element is the blocker, and an element without index lies over
\* the target without being one
C26_Witness ==
  /\ tap_call.method = "tap_on_index"
  /\ tap_result.blockers # Nothing
  /\ Len(tap_result.blockers[1]) = 1
  /\ clickable_elements_cache[1].children # << >>
  /\ clickable_elements_cache[1].children[1].bounds = Some(RMid)
  /\ \E i \in 1..Len(clickable_elements_cache) :
       /\ clickable_elements_cache[i].index = Nothing
       /\ clickable_elements_cache[i].bounds = Some(R100)

\* the cached elements below the target of the call, and those without index
LowerOrBareElements ==
  SelectSeq(collect_all_elements(clickable_elements_cache),
            LAMBDA el : el.index = Nothing \/ el.index[1] < tap_call.index)

\* the target of the call has bounds that read as a rectangle
TargetWellFormed ==
  /\ TargetOfCall # << >>
  /\ TargetOfCall[1].bounds # Nothing
  /\ ~Malformed(TargetOfCall[1].bounds)

\* C39: in tap_on_index a malformed bounds string on any cached element with
\* an index higher than the target's makes the call return an error without a
\* click, even when the target's own bounds are valid; a malformed bounds
\* string on an element with a lower index or without index does not change
\* the result: with the target and every higher element well formed the call
\* returns no error about bounds.
C39_MalformedBoundsAboveFailTheTap ==
  (tap_call.method = "tap_on_index" /\ TargetWellFormed) =>
    /\ (\E i \in 1..Len(HigherElements) : Malformed(HigherElements[i].bounds)) =>
         /\ tap_result.text = "Error: invalid literal for int() with base 10"
         /\ tap_result.click = Nothing
         /\ clicks = << >>
    /\ Resolvable =>
         /\ tap_result.text \notin BoundsErrors
         /\ ~FullyObscured => (tap_result.click # Nothing /\ Len(clicks) = 1)

\* the target is well formed and nothing overlaps it, and the element above
\* it has malformed bounds
C39_Witness ==
  /\ tap_call = [method |-> "tap_on_index", index |-> 1]
  /\ Len(clickable_elements_cache) = 2
  /\ clickable_elements_cache[1].bounds = Some(RSmall)
  /\ clickable_elements_cache[1].children = << >>
  /\ clickable_elements_cache[2].index = Some(2)
  /\ clickable_elements_cache[2].bounds = Some(BThirty)
  /\ tap_result.click = Nothing
  /\ clicks = << >>

\* the element below the target has malformed bounds and the target is tapped
C39_LowerWitness ==
  /\ tap_call = [method |-> "tap_on_index", index |-> 2]
  /\ \E i \in 1..Len(LowerOrBareElements) : Malformed(LowerOrBareElements[i].bounds)
  /\ tap_result.click # Nothing
  /\ Len(clicks) = 1

\* ================================================= notice of a variant's dump
NoticeChunks == { "hierchary", "hierarchy" }

\* the output with the notice taken out and nothing else
WithoutNotice(text) == SelectSeq(text, LAMBDA chunk : chunk \notin NoticeChunks)

\* a returned output with the notice somewhere, no error marker, and a
\* payload that parses once the notice is gone
PayloadWithNotice(out) ==
  /\ out.status = "returned"
  /\ Contains(out.text, NoticeChunks)
  /\ ~HasErrorMarker(out.text)
  /\ uiautomator_parser_parse(WithoutNotice(out.text)) # None

\* C27: a Structured variant whose output holds a parseable <hierarchy>
\* payload, the dump notice before or after it, and no error marker
\* succeeds: the call returns the tree of that output.
C27_NoticeStrippedPayloadKept ==
  PayloadWithNotice(output) => (JustReturned /\ ui_result = "uiautomator")

\* ============================================================ AdbTools.remember
\* A str is the sequence of its characters; NotAStr is an argument that is
\* no str.
NotAStr == << "None" >>
Whitespace == { " " }

\* information.strip(): the characters from the first to the last that is
\* no whitespace
strip_str(str) ==
  LET solid == { i \in 1..Len(str) : str[i] \notin Whitespace }
  IN  IF solid = {} THEN << >> ELSE SubSeq(str, Min(solid), Max(solid))

\* line 940
max_memory_items == 10

\* the last n items of a list, list[-n:]
LastItems(list, n) == SubSeq(list, Max({ 1, Len(list) - n + 1 }), Len(list))

\* line 933: not information or not isinstance(information, str)
IsValidInformation(information) == information # NotAStr /\ information # << >>

\* a memory that keeps its oldest items
RememberKeepOldest(list, information) ==
  LET appended == Append(list, strip_str(information))
  IN  IF Len(appended) > max_memory_items
      THEN SubSeq(appended, 1, max_memory_items)
      ELSE appended

\* lines 937-942: self.memory after the append and the cut
remember(list, information) ==
  LET appended == Append(list, strip_str(information))
  IN  IF Len(appended) > max_memory_items
      THEN LastItems(appended, max_memory_items)
      ELSE appended

\* ---------------------------------------------------------- calls given
MaxRemember == 12
\* "a", " b ", "", and an argument that is no str
Informations == { << "a" >>, << " ", "b", " " >>, << >>, NotAStr }

\* tools.remember(information)
Remember(information) ==
  /\ Len(remembered) < MaxRemember
  /\ IF IsValidInformation(information)
     THEN /\ memory' = remember(memory, information)
          /\ remembered' = Append(remembered, information)
          /\ reply' = "Remembered"
     ELSE /\ reply' = "Error: Please provide valid information to remember."
          /\ UNCHANGED << memory, remembered >>
  /\ UNCHANGED << acqVars, parserVars, inflight, tapVars, srvVars, completion, complete_call >>

\* ------------------------------------------------------------ AdbTools.complete
\* the values of the parameter reason: the default "" and a text
Reasons == { "", "no such button" }

\* line 914: `if not reason: raise ValueError(...)`
complete_raises(success_arg, reason_arg) == ~success_arg /\ reason_arg = ""

\* lines 908-917: the fields after the call; Some(x) is the value x, << >> is None
complete(fields, success_arg, reason_arg) ==
  IF success_arg
  THEN [success |-> Some(TRUE),
        reason |-> Some(IF reason_arg = "" THEN "Task completed successfully." ELSE reason_arg),
        finished |-> TRUE]
  ELSE IF reason_arg = ""
  THEN [fields EXCEPT !.success = Some(FALSE)]
  ELSE [success |-> Some(FALSE), reason |-> Some(reason_arg), finished |-> TRUE]

\* await tools.complete(success, reason)
Complete(success_arg, reason_arg) ==
  /\ completion' = complete(completion, success_arg, reason_arg)
  /\ complete_call' =
       [status |-> IF complete_raises(success_arg, reason_arg) THEN "ValueError" ELSE "returned",
        success |-> success_arg, reason |-> reason_arg]
  /\ UNCHANGED << acqVars, parserVars, inflight, tapVars, srvVars, memory, remembered, reply >>

MemoryInit ==
  /\ automotive_mode = TRUE
  /\ Constructed
  /\ SideIdle

MemoryNext ==
  \/ \E information \in Informations : Remember(information)
  \/ \E success_arg \in BOOLEAN, reason_arg \in Reasons : Complete(success_arg, reason_arg)

MemorySpec == MemoryInit /\ [][MemoryNext]_vars

\* the text of a remembered argument without the spaces around it
Trimmed(information) == SelectSeq(information, LAMBDA ch : ch # " ")

\* C25: after any sequence of remember calls the memory holds at most 10
\* items: the items remembered last, in the order they were remembered.
C25_MemoryKeepsLatestTen ==
  /\ Len(memory) <= 10
  /\ Len(memory) = IF Len(remembered) < 10 THEN Len(remembered) ELSE 10
  /\ \A i \in 1..Len(memory) :
       memory[i] = Trimmed(remembered[Len(remembered) - Len(memory) + i])

\* eleven items were remembered and the first of them is gone
C25_Witness ==
  /\ Len(remembered) = 11
  /\ remembered[1] = << "a" >>
  /\ \A i \in 2..11 : remembered[i] = << " ", "b", " " >>
  /\ memory = [i \in 1..10 |-> << "b" >>]

\* C38: complete(success=False) with an empty reason raises ValueError and
\* leaves success, reason and finished as they were before the call.
C38_FailureWithoutReasonChangesNothing ==
  [][ (complete_call' # NoComplete /\ ~complete_call'.success /\ complete_call'.reason = "") =>
        /\ complete_call'.status = "ValueError"
        /\ completion' = completion ]_vars

\* ================================================================ droidServer
\* ConnectionManager, handle_websocket and DroidSession.run for the clients
\* of one server.  A position of a coroutine is the await it is suspended
\* at; awaiting the send of a message changes nothing and is no position of
\* its own: a message is on the websocket when send_message was called.

\* the session task has come to its end
TaskFinished == { "returned", "cancelled" }
\* task.done()
task_done(c) == sessions[c].pc \in TaskFinished

\* len(self.active_connections)
get_client_count(conns) == Cardinality({ id \in ClientIds : conns[id] # NoClient })

\* line 41: len(self.active_connections) >= self.max_connections
limit_reached(mgr) == get_client_count(mgr.active_connections) >= mgr.max_connections

\* ConnectionManager.send_message, lines 82-87: the message goes to the
\* websocket stored under client_id, and nowhere without one
send_message(conns, socks, id, message) ==
  IF conns[id] = NoClient
  THEN socks
  ELSE [socks EXCEPT ![conns[id]].last = message]

\* ConnectionManager.disconnect, lines 57-67: the task stored under the id
\* is cancelled unless done, session.cancel() is scheduled for the session
\* stored under it.  The flag session.cancel() sets is read by run only:
\* the call scheduled for a session whose run has ended is left out.
disconnect_sessions(sess, id) ==
  LET task == manager.session_tasks[id]
      session == manager.active_sessions[id]
      after_task == IF task # NoClient /\ sess[task].pc \notin TaskFinished
                    THEN [sess EXCEPT ![task].must_cancel = TRUE]
                    ELSE sess
  IN  IF session # NoClient /\ sess[session].pc \notin TaskFinished
      THEN [after_task EXCEPT ![session].cancel_pending = TRUE]
      ELSE after_task

\* a disconnect that forgets the connection only
DisconnectConnectionOnly(mgr, id) ==
  [mgr EXCEPT !.active_connections[id] = NoClient]

\* ConnectionManager.disconnect, lines 61, 67, 71: the three keys go
disconnect_manager(mgr, id) ==
  [mgr EXCEPT !.session_tasks[id] = NoClient,
              !.active_sessions[id] = NoClient,
              !.active_connections[id] = NoClient]

\* the finally clause of handle_websocket, line 211, and its return
Finally(c, request) ==
  /\ manager' = disconnect_manager(manager, handlers[c].client_id)
  /\ sessions' = disconnect_sessions(sessions, handlers[c].client_id)
  /\ handlers' = [handlers EXCEPT ![c].pc = "done", ![c].request = request]

\* ------------------------------------------------------- handle_websocket
\* a client connects: manager.connect up to its first await, lines 127, 41-45
Connect(c) ==
  /\ UNCHANGED nonServerVars
  /\ handlers[c].pc = "idle"
  /\ handlers' = [handlers EXCEPT ![c].pc = IF limit_reached(manager) THEN "close" ELSE "accept"]
  /\ UNCHANGED << manager, sessions, sockets >>

\* websocket.close(code=1008) returns, line 128: the handler returns
CloseReturns(c) ==
  /\ UNCHANGED nonServerVars
  /\ handlers[c].pc = "close"
  /\ handlers' = [handlers EXCEPT ![c].pc = "rejected"]
  /\ sockets' = [sockets EXCEPT ![c].close_code = 1008]
  /\ UNCHANGED << manager, sessions >>

\* websocket.accept() returns, line 45: the client is registered, the
\* welcome message is sent and the request awaited, lines 46-48, 133-144
AcceptReturns(c) ==
  /\ UNCHANGED nonServerVars
  /\ handlers[c].pc = "accept"
  /\ manager' = [manager EXCEPT !.active_connections[handlers[c].client_id] = c]
  /\ sockets' = send_message(manager'.active_connections, sockets, handlers[c].client_id,
                             Msg("connection_status", "connected"))
  /\ handlers' = [handlers EXCEPT ![c].pc = "receive"]
  /\ UNCHANGED sessions

\* the wait for the request ends with a request that validates: the
\* session and its task are created and stored, lines 158, 180-189
RequestReceived(c) ==
  /\ UNCHANGED nonServerVars
  /\ handlers[c].pc = "receive"
  /\ \E automotive \in BOOLEAN :
       handlers' = [handlers EXCEPT ![c].pc = "await_task",
                                    ![c].request = IF automotive THEN "automotive" ELSE "phone"]
  /\ manager' = [manager EXCEPT !.active_sessions[handlers[c].client_id] = c,
                                !.session_tasks[handlers[c].client_id] = c]
  /\ sessions' = [sessions EXCEPT ![c].pc = "start"]
  /\ UNCHANGED sockets

\* the wait for the request ends otherwise: after 30 s (line 145), with
\* data that is no ConnectionRequest (line 159), or with an exception of
\* receive_json other than the disconnect (line 196); agent_error is sent,
\* and the finally clause follows
NoRequest(c) ==
  /\ UNCHANGED nonServerVars
  /\ handlers[c].pc = "receive"
  /\ \E how \in { "timeout", "invalid", "exception" } :
       /\ sockets' = send_message(manager.active_connections, sockets, handlers[c].client_id,
                                  Msg("agent_error", how))
       /\ Finally(c, IF how = "invalid" THEN "invalid" ELSE "none")

\* the client goes away while the handler waits for the request:
\* WebSocketDisconnect, lines 193-194, and the finally clause
ClientDisconnects(c) ==
  /\ UNCHANGED nonServerVars
  /\ handlers[c].pc = "receive"
  /\ Finally(c, "none")
  /\ UNCHANGED sockets

\* await session_task ends with the task, lines 188-191, 211
TaskAwaited(c) ==
  /\ UNCHANGED nonServerVars
  /\ handlers[c].pc = "await_task"
  /\ task_done(c)
  /\ Finally(c, handlers[c].request)
  /\ UNCHANGED sockets

\* ------------------------------------------------------- DroidSession.run
\* the sessions and the websockets as a step of run leaves them
Current == [sess |-> sessions, socks |-> sockets]
Becomes(st) == sessions' = st.sess /\ sockets' = st.socks

\* _send_event, lines 215-230, through send_callback (lines 176-177)
send_event(st, c, message) ==
  [sess |-> [st.sess EXCEPT ![c].emitted = Append(@, message)],
   socks |-> send_message(manager.active_connections, st.socks, handlers[c].client_id, message)]

\* run goes on to its next await, or ends
MovedTo(st, c, position) == [st EXCEPT !.sess[c].pc = position]

\* a step of the setup came back with success
Passed(st, c, step) == [st EXCEPT !.sess[c].passed = @ \cup { step }]

\* a step of the task is taken only when no cancellation waits for it
Running(c, position) == sessions[c].pc = position /\ ~sessions[c].must_cancel

\* the except clause of lines 206-208
on_exception(st, c) == MovedTo(send_event(st, c, Msg("agent_error", "exception")), c, "returned")

\* a run that reports the missing config file and goes on
LoadConfigGoesOn(st, c, config) ==
  CASE config = "missing" ->
         MovedTo(send_event(st, c, Msg("agent_error", "Config file not found")), c, "stream")
    [] config = "raises" -> on_exception(st, c)
    [] config = "ok" -> MovedTo(send_event(st, c, Msg("agent_started", "")), c, "stream")

\* lines 114-156: the config file is missing, or loading it or creating the
\* agent raises, or the agent is announced and its stream awaited
load_config(st, c, config) ==
  CASE config = "missing" ->
         MovedTo(send_event(st, c, Msg("agent_error", "Config file not found")), c, "returned")
    [] config = "raises" -> on_exception(st, c)
    [] config = "ok" -> MovedTo(send_event(st, c, Msg("agent_started", "")), c, "stream")

ConfigOutcomes == { "missing", "raises", "ok" }

\* the task runs for the first time, lines 69-76
SessionStarts(c) ==
  /\ UNCHANGED nonServerVars
  /\ Running(c, "start")
  /\ Becomes(MovedTo(send_event(Current, c, Msg("connection_status", "connecting")), c, "connect"))
  /\ UNCHANGED << manager, handlers >>

\* adb_service.connect returns, lines 76-84
AdbConnectReturns(c) ==
  /\ UNCHANGED nonServerVars
  /\ Running(c, "connect")
  /\ \E success \in BOOLEAN :
       IF success
       THEN Becomes(MovedTo(send_event(Passed(Current, c, "connect"), c, Msg("adb_connected", "")),
                            c, "verify"))
       ELSE Becomes(MovedTo(send_event(Current, c, Msg("adb_error", "connect")), c, "returned"))
  /\ UNCHANGED << manager, handlers >>

\* adb_service.verify_device returns, lines 84-98 and 114-156
VerifyDeviceReturns(c) ==
  /\ UNCHANGED nonServerVars
  /\ Running(c, "verify")
  /\ \E accessible \in BOOLEAN, config \in ConfigOutcomes :
       IF ~accessible
       THEN Becomes(MovedTo(send_event(Current, c, Msg("adb_error", "not accessible")), c, "returned"))
       ELSE IF handlers[c].request = "phone"
       THEN Becomes(MovedTo(send_event(Passed(Current, c, "verify"),
                                       c, Msg("connection_status", "checking_portal")),
                            c, "portal"))
       ELSE Becomes(load_config(Passed(Current, c, "verify"), c, config))
  /\ UNCHANGED << manager, handlers >>

\* adb_service.ensure_portal_installed returns, lines 98-156
EnsurePortalReturns(c) ==
  /\ UNCHANGED nonServerVars
  /\ Running(c, "portal")
  /\ \E portal_ok \in BOOLEAN, config \in ConfigOutcomes :
       IF portal_ok
       THEN Becomes(load_config(send_event(Passed(Current, c, "portal"),
                                           c, Msg("connection_status", "portal_ready")),
                                c, config))
       ELSE Becomes(MovedTo(send_event(Current, c, Msg("agent_error", "Portal setup failed")),
                            c, "returned"))
  /\ UNCHANGED << manager, handlers >>

\* handler.stream_events() yields an event, lines 156-181: the loop breaks
\* on _cancelled, which ends run (line 184); it skips the event of a
\* filtered class and one that does not serialize, and sends any other
StreamYields(c) ==
  /\ UNCHANGED nonServerVars
  /\ Running(c, "stream")
  /\ sessions[c].events < MaxEvents
  /\ \E sendable \in BOOLEAN :
       LET counted == [Current EXCEPT !.sess[c].events = @ + 1]
       IN  IF sessions[c].cancelled
           THEN Becomes(MovedTo(counted, c, "returned"))
           ELSE IF sendable
           THEN Becomes(send_event(counted, c, Msg("manager_plan", "")))
           ELSE Becomes(counted)
  /\ UNCHANGED << manager, handlers >>

\* the stream ends or raises, lines 156, 184-185, 206-208
StreamEnds(c) ==
  /\ UNCHANGED nonServerVars
  /\ Running(c, "stream")
  /\ \E raises \in BOOLEAN :
       IF raises
       THEN Becomes(on_exception(Current, c))
       ELSE IF sessions[c].cancelled
       THEN Becomes(MovedTo(Current, c, "returned"))
       ELSE Becomes(MovedTo(Current, c, "result"))
  /\ UNCHANGED << manager, handlers >>

\* await handler returns the result or raises, lines 185-199
ResultReturns(c) ==
  /\ UNCHANGED nonServerVars
  /\ Running(c, "result")
  /\ \E raises \in BOOLEAN :
       IF raises
       THEN Becomes(on_exception(Current, c))
       ELSE Becomes(MovedTo(send_event(Current, c, Msg("agent_completed", "")), c, "returned"))
  /\ UNCHANGED << manager, handlers >>

\* the except clause of lines 201-204
on_cancelled(st, c) ==
  MovedTo(send_event(st, c, Msg("agent_error", "Session cancelled by client")), c, "cancelled")

\* the task is resumed after task.cancel(): CancelledError is raised at the
\* await it was suspended at, inside the try block; a task that never ran
\* ends without running
SessionCancelled(c) ==
  /\ UNCHANGED nonServerVars
  /\ sessions[c].must_cancel
  /\ ~task_done(c)
  /\ LET delivered == [Current EXCEPT !.sess[c].must_cancel = FALSE]
     IN  IF sessions[c].pc = "start"
         THEN Becomes(MovedTo(delivered, c, "cancelled"))
         ELSE Becomes(on_cancelled(delivered, c))
  /\ UNCHANGED << manager, handlers >>

\* the task disconnect created for session.cancel() runs, lines 66, 210-213
SessionCancelRuns(c) ==
  /\ UNCHANGED nonServerVars
  /\ sessions[c].cancel_pending
  /\ sessions' = [sessions EXCEPT ![c].cancel_pending = FALSE, ![c].cancelled = TRUE]
  /\ UNCHANGED << manager, handlers, sockets >>

\* -------------------------------------------------------- specification
\* the limits a manager is constructed with, and the client_ids the clients
\* come with: their own, or one shared with another client
ClientIdChoices == { ids \in [Clients -> ClientIds] : ids[1] = 1 }

ServerInit ==
  /\ automotive_mode = TRUE
  /\ Constructed
  /\ ParserIdle /\ NoCallers /\ TapIdle /\ MemoryIdle
  /\ \E limit \in 1..MaxConnections, ids \in ClientIdChoices : ServerConstructed(limit, ids)

ServerNext ==
  \E c \in Clients :
    \/ Connect(c)
    \/ CloseReturns(c)
    \/ AcceptReturns(c)
    \/ RequestReceived(c)
    \/ NoRequest(c)
    \/ ClientDisconnects(c)
    \/ TaskAwaited(c)
    \/ SessionStarts(c)
    \/ AdbConnectReturns(c)
    \/ VerifyDeviceReturns(c)
    \/ EnsurePortalReturns(c)
    \/ StreamYields(c)
    \/ StreamEnds(c)
    \/ ResultReturns(c)
    \/ SessionCancelled(c)
    \/ SessionCancelRuns(c)

ServerSpec == ServerInit /\ [][ServerNext]_vars

\* ------------------------------------------------------------ properties
\* the client_id of the client is the id of no other client
OwnId(c) == \A d \in Clients \ { c } : handlers[d].client_id # handlers[c].client_id

\* the clients whose websocket is registered
RegisteredClients ==
  { c \in Clients : \E id \in ClientIds : manager.active_connections[id] = c }

\* C24: the number of registered connections never exceeds max_connections,
\* also when clients connect at the same time; a client that arrives at
\* the limit is rejected, its socket is closed with 1008 and it is never
\* registered.
C24_AtMostMaxConnections ==
  /\ Cardinality(RegisteredClients) <= manager.max_connections
  /\ \A c \in Clients :
       /\ handlers[c].pc \in { "close", "rejected" } => c \notin RegisteredClients
       /\ handlers[c].pc = "rejected" => sockets[c].close_code = 1008

\* C23: when the handler of a session that received a request has finished,
\* the last message sent to its client is agent_completed or agent_error.
C23_FinalMessageIsCompletedOrError ==
  \A c \in Clients :
    (handlers[c].pc = "done" /\ handlers[c].request # "none" /\ OwnId(c)) =>
      sockets[c].last.event_type \in { "agent_completed", "agent_error" }

\* the positions of the events of a type among the events a session sent
PositionsOf(events, types) == { i \in 1..Len(events) : events[i].event_type \in types }

\* C29: run sends connection_status(connecting) first; adb_connected only
\* after the ADB connect succeeded; agent_started only after adb_connected
\* and a successful verification, and for a phone after portal_ready;
\* agent_completed at most once and only after agent_started; and after an
\* adb_error or an agent_error of the setup neither agent_started nor
\* agent_completed.
C29_LifecycleOrder ==
  \A c \in Clients :
    LET events == sessions[c].emitted
        started == PositionsOf(events, { "agent_started" })
        completed == PositionsOf(events, { "agent_completed" })
        connected == PositionsOf(events, { "adb_connected" })
        ready == { i \in 1..Len(events) : events[i] = Msg("connection_status", "portal_ready") }
        failed == { i \in 1..Len(events) :
                      \/ events[i].event_type = "adb_error"
                      \/ /\ events[i].event_type = "agent_error"
                         /\ \A j \in started : j > i }
    IN  /\ events # << >> => events[1] = Msg("connection_status", "connecting")
        /\ connected # {} => "connect" \in sessions[c].passed
        /\ \A i \in started :
             /\ \E j \in connected : j < i
             /\ "verify" \in sessions[c].passed
             /\ handlers[c].request # "automotive" => \E j \in ready : j < i
        /\ Cardinality(completed) <= 1
        /\ \A i \in completed : \E j \in started : j < i
        /\ \A i \in failed : \A k \in started \cup completed : k < i

\* the whole course of a session for a phone
C29_Witness ==
  \E c \in Clients :
    /\ handlers[c].request = "phone"
    /\ sessions[c].emitted =
         << Msg("connection_status", "connecting"), Msg("adb_connected", ""),
            Msg("connection_status", "checking_portal"), Msg("connection_status", "portal_ready"),
            Msg("agent_started", ""), Msg("manager_plan", ""), Msg("agent_completed", "") >>

\* the step in which handle_websocket finishes for an accepted client
Finishes(c) == handlers[c].pc \in { "receive", "await_task" } /\ handlers'[c].pc = "done"

\* C30: when handle_websocket finishes for an accepted client, its client_id
\* is a key of none of active_connections, active_sessions and
\* session_tasks, its own session task has ended, and a task that was
\* stored under the id and has not ended is cancelled.
C30_FinishedClientIsForgotten ==
  [][\A c \in Clients :
       Finishes(c) =>
         LET id == handlers[c].client_id
             stored == manager.session_tasks[id]
         IN  /\ manager'.active_connections[id] = NoClient
             /\ manager'.active_sessions[id] = NoClient
             /\ manager'.session_tasks[id] = NoClient
             /\ sessions'[c].pc \in { "none", "returned", "cancelled" }
             /\ (stored # NoClient /\ sessions[stored].pc \notin { "returned", "cancelled" })
                  => sessions'[stored].must_cancel]_vars

\* a handler has finished after its session completed, and the task of
\* another client, stored under the same id, was cancelled by it
C30_Witness ==
  \E c, d \in Clients :
    /\ c # d
    /\ handlers[c].pc = "done"
    /\ sessions[c].pc = "returned"
    /\ sessions[d].pc = "cancelled"
    /\ \A id \in ClientIds : manager.active_connections[id] # c

\* what the manager holds of a client: the ids under which its websocket,
\* its session and its task are stored
HeldOf(mgr, d) ==
  [connections |-> { id \in ClientIds : mgr.active_connections[id] = d },
   sessions |-> { id \in ClientIds : mgr.active_sessions[id] = d },
   tasks |-> { id \in ClientIds : mgr.session_tasks[id] = d }]

\* C36: tearing down one connection never affects another live one: the
\* disconnect of a finishing handler removes only that handler's own
\* websocket, session and task, also when two connections were opened with
\* the same client_id.
C36_DisconnectTouchesOwnConnectionOnly ==
  [][\A c \in Clients :
       Finishes(c) =>
         \A d \in Clients \ { c } :
           /\ HeldOf(manager', d) = HeldOf(manager, d)
           /\ sessions'[d] = sessions[d]]_vars

====
